---- MODULE Spec2Model ----
(***************************************************************************)
(* A model of the NATS table engine (src/Storages/NATS/StorageNATS.cpp):   *)
(* the consumer connection, the consumer pool with its semaphore-gated     *)
(* free list, the two background tasks (initializer and streaming), the    *)
(* read and write facade, shutdown, and the subject matcher.               *)
(***************************************************************************)
EXTENDS Integers, Sequences, FiniteSets, TLC

(***************************************************************************)
(* Bounds of the model.                                                    *)
(***************************************************************************)
\* nats_num_consumers ranges over 1..MaxConsumers
MaxConsumers == 2
\* the catalog holds 0..MaxViews dependent views
MaxViews == 1
\* at most MaxCalls user queries (admitted direct-read pipelines and insert
\* sinks with their producer) are in flight at once
MaxCalls == 1
\* subjects and insert queues are enumerated up to MaxLevels levels
MaxLevels == 2

VARIABLES
    \* ---- immutable configuration (chosen in Init)
    num_consumers,          \* nats_num_consumers
    subjects,               \* the declared subjects (nats_subjects, parsed)
    \* ---- engine fields
    constructed,            \* "no" | "yes" | "failed": the constructor body ran
    started,                \* startup() has been called
    event_loop,             \* "none" | "running" | "stopped" (thread joined)
    consumers_connection,   \* "null" | "open" | "closed"
    consumer_connections,   \* number of consumer connections ever created
    write_connections,      \* open connections created by write() for producers
    num_created_consumers,
    consumers,              \* the free list (a vector used as a LIFO); a consumer
                            \* is represented by its state: is it subscribed
    semaphore,              \* permits of the counting semaphore
    consumers_ready, mv_attached, shutdown_called, drop_table,
    \* ---- background tasks of the schedule pool
    task_active,            \* [task -> BOOLEAN]  (not deactivated)
    task_scheduled,         \* [task -> "no" | "now" | "after"]
    init_pc,                \* position inside initializeConsumersFunc
    stream_pc,              \* position inside streamingToViewsFunc
    consumers_queues_are_empty,  \* local of streamingToViewsFunc
    stream_try,             \* how the running streamingToViewsFunc went through
                            \* its try block: "skipped" (no healthy connection),
                            \* "entered", "passed" (a pipeline ran), "threw"
    elapsed,                \* ms from the start of the running activation (line
                            \* 613) to the end of its latest pass (line 635)
    stream_leased,          \* consumers held by the sources of the running pass
    shutdown_pc,            \* position inside shutdown()
    drained,                \* consumers popped by shutdown's drain loop
    \* ---- callers and collaborators
    broker_up,              \* the broker accepts and keeps connections
    num_views,              \* dependent views in the catalog
    views_resolvable,       \* every dependent view resolves, with its target table
    reads_in_progress,      \* admitted direct-read pipelines still running
    read_leased,            \* consumers held by sources of direct reads
    pool_pc,                \* the calls inside pushConsumer and popConsumer
    \* ---- what a caller is being handed back
    last_construct,         \* mode and outcome of the constructor call returning
    last_read,              \* input and outcome of the read() call returning
    last_write,             \* inputs and outcome of the write() call returning
    last_pop,               \* what the popConsumer(timeout) call returning gave
    cand, match_result,     \* isSubjectInSubscriptions(cand) returning match_result
    match_law               \* the matcher on a single subject and on the declared
                            \* subjects with that subject added, for cand

vars == << num_consumers, subjects, constructed, started, event_loop,
           consumers_connection, consumer_connections, write_connections,
           num_created_consumers, consumers, semaphore, consumers_ready,
           mv_attached, shutdown_called, drop_table, task_active, task_scheduled,
           init_pc, stream_pc, consumers_queues_are_empty, stream_try, elapsed,
           stream_leased, shutdown_pc, drained, broker_up, num_views,
           views_resolvable, reads_in_progress,
           read_leased, pool_pc, last_construct, last_read, last_write,
           last_pop, cand, match_result, match_law >>

Tasks == {"init", "stream"}

\* ---- groups of variables an action leaves alone
configVars == << num_consumers, subjects >>
lifeVars == << constructed, started, event_loop, drained >>
connVars == << consumers_connection, consumer_connections >>
poolVars == << num_created_consumers, consumers, semaphore >>
taskVars == << task_active, task_scheduled >>
streamLocals == << consumers_queues_are_empty, stream_try, elapsed, stream_leased >>
envVars == << broker_up, num_views, views_resolvable >>
readVars == << reads_in_progress, read_leased >>
obsVars == << last_construct, last_read, last_write, last_pop, cand,
             match_result, match_law >>

\* ---- helpers
Front(s) == SubSeq(s, 1, Len(s) - 1)

\* consumers held outside the free list, counted by state (subscribed or not)
NoLease == [sub \in BOOLEAN |-> 0]

leaseSize(held) == held[TRUE] + held[FALSE]

leaseAdd(held, sub) == [held EXCEPT ![sub] = @ + 1]

leaseRemove(held, sub) == [held EXCEPT ![sub] = @ - 1]

\* NATSConnection::isConnected of the consumer connection
isConnected == consumers_connection = "open" /\ broker_up

(***************************************************************************)
(* The schedule pool's task handle (BackgroundSchedulePoolTaskInfo):       *)
(* schedule()/scheduleAfter() arm an activated task, activateAndSchedule() *)
(* activates and arms it, deactivate() disarms it and then waits for a     *)
(* running execution to return.                                            *)
(***************************************************************************)
schedule(sched, active, t, how) ==
    IF active[t] THEN [sched EXCEPT ![t] = how] ELSE sched

\* the pool picks an armed, activated task that is not executing
taskRunnable(t, pc) == task_active[t] /\ task_scheduled[t] # "no" /\ pc = "idle"

(***************************************************************************)
(* The consumer pool.                                                      *)
(***************************************************************************)
\* the callers of popConsumer: sources of a streaming pass, sources of a
\* direct read, the drain loop of shutdown()
PoolCallers == {"stream", "read", "drain"}

\* no call is inside pushConsumer or popConsumer.  i: loop index of
\* createConsumers; mutex: the caller of pushConsumer that holds
\* consumers_mutex after push_back and before semaphore.set(); popping: per
\* caller, the calls of popConsumer that have passed the semaphore and not
\* yet locked consumers_mutex; ending: the sources of the running pass are
\* being destroyed
NoPoolCall ==
    [i |-> 0, mutex |-> "free", popping |-> [c \in PoolCallers |-> 0],
     ending |-> FALSE]

\* pushConsumer: push_back on the free list (and one permit released)
pushConsumer(list, consumer) == Append(list, consumer)

\* a faulty variant of popConsumerResult: consumers.front()
popConsumerResult_front(list) == list[1]

\* the consumer a successful popConsumer returns: consumers.back()
popConsumerResult(list) == list[Len(list)]

\* createConsumers: k of the num_consumers constructions succeed; a new
\* consumer is not subscribed
createdList(k) == [i \in 1..k |-> FALSE]

\* subscribeConsumers: the loop subscribes the first j consumers of the free
\* list (j < Len means subscribe() of consumer j+1 threw and the loop broke)
subscribeLoop(list, j) == [i \in 1..Len(list) |-> IF i <= j THEN TRUE ELSE list[i]]

\* a faulty variant of are_consumers_initialized: one subscription is enough
are_consumers_initialized_partly(num_initialized, created) == num_initialized > 0

\* are_consumers_initialized, line 322
are_consumers_initialized(num_initialized, created) == num_initialized = created

\* unsubscribeConsumers: every consumer of the free list is unsubscribed
unsubscribeLoop(list) == [i \in 1..Len(list) |-> FALSE]

(***************************************************************************)
(* Strings are sequences of characters.                                    *)
(***************************************************************************)
\* the levels subjects are made of: empty, a literal, and the two wildcards
Levels == {<< >>, << "a" >>, << "*" >>, << ">" >>}

\* the levels joined by dots
RECURSIVE joinLevels(_)
joinLevels(levels) ==
    IF Len(levels) = 1 THEN levels[1]
    ELSE levels[1] \o << "." >> \o joinLevels(Tail(levels))

\* the subjects of 1..n levels
Strings(n) == {joinLevels(levels) : levels \in UNION {[1..k -> Levels] : k \in 1..n}}

\* boost::split(result, list, c == delim): the pieces between delimiters,
\* empty pieces kept
RECURSIVE boostSplit(_, _)
boostSplit(list, delim) ==
    IF \A i \in 1..Len(list) : list[i] # delim
    THEN << list >>
    ELSE LET k == CHOOSE i \in 1..Len(list) :
                      list[i] = delim /\ \A j \in 1..(i - 1) : list[j] # delim
         IN << SubSeq(list, 1, k - 1) >> \o boostSplit(SubSeq(list, k + 1, Len(list)), delim)

\* boost::trim(key): strip leading and trailing white space
RECURSIVE trim(_)
trim(key) ==
    IF key = << >> THEN key
    ELSE IF key[1] = " " THEN trim(Tail(key))
    ELSE IF key[Len(key)] = " " THEN trim(SubSeq(key, 1, Len(key) - 1))
    ELSE key

\* StorageNATS::parseList
parseList(list, delim) ==
    IF list = << >> THEN << >>
    ELSE LET result == boostSplit(list, delim)
         IN [i \in 1..Len(result) |-> trim(result[i])]

(***************************************************************************)
(* isSubjectInSubscriptions                                                *)
(***************************************************************************)
\* the inner loop over the first levels_to_check levels, from level i on
RECURSIVE levelsLoop(_, _, _, _)
levelsLoop(subject_levels, nats_subject_levels, i, levels_to_check) ==
    IF i > levels_to_check THEN TRUE
    ELSE IF nats_subject_levels[i] = << "*" >>
         THEN levelsLoop(subject_levels, nats_subject_levels, i + 1, levels_to_check)
    ELSE IF subject_levels[i] # nats_subject_levels[i] THEN FALSE
    ELSE levelsLoop(subject_levels, nats_subject_levels, i + 1, levels_to_check)

\* a faulty variant of subjectMatches: without a trailing '>' the sizes are
\* compared with < instead of !=
subjectMatches_prefix(subject_levels, nats_subject) ==
    LET nats_subject_levels == parseList(nats_subject, ".")
        n == Len(nats_subject_levels)
        levels_to_check == IF n # 0 /\ nats_subject_levels[n] = << ">" >>
                           THEN n - 1 ELSE 0
    IN IF levels_to_check # 0
       THEN IF Len(subject_levels) < levels_to_check THEN FALSE
            ELSE levelsLoop(subject_levels, nats_subject_levels, 1, levels_to_check)
       ELSE IF Len(subject_levels) < n THEN FALSE
            ELSE levelsLoop(subject_levels, nats_subject_levels, 1, n)

\* one iteration of the loop over the declared subjects: is_same, or FALSE
\* where the iteration is left by continue
subjectMatches(subject_levels, nats_subject) ==
    LET nats_subject_levels == parseList(nats_subject, ".")
        n == Len(nats_subject_levels)
        levels_to_check == IF n # 0 /\ nats_subject_levels[n] = << ">" >>
                           THEN n - 1 ELSE 0
    IN IF levels_to_check # 0
       THEN IF Len(subject_levels) < levels_to_check THEN FALSE
            ELSE levelsLoop(subject_levels, nats_subject_levels, 1, levels_to_check)
       ELSE IF Len(subject_levels) # n THEN FALSE
            ELSE levelsLoop(subject_levels, nats_subject_levels, 1, n)

\* a faulty variant of subjectsLoop: is_same of the last declared subject is
\* what the loop returns
subjectsLoop_last(subjs, subject_levels, i) ==
    IF Len(subjs) = 0 THEN FALSE
    ELSE subjectMatches(subject_levels, subjs[Len(subjs)])

\* a faulty variant of subjectsLoop: the loop returns is_same of the first
\* declared subject
subjectsLoop_first(subjs, subject_levels, i) ==
    IF i > Len(subjs) THEN FALSE
    ELSE subjectMatches(subject_levels, subjs[i])

\* the loop over the declared subjects, from subject i on
RECURSIVE subjectsLoop(_, _, _)
subjectsLoop(subjs, subject_levels, i) ==
    IF i > Len(subjs) THEN FALSE
    ELSE IF subjectMatches(subject_levels, subjs[i]) THEN TRUE
    ELSE subjectsLoop(subjs, subject_levels, i + 1)

isSubjectInSubscriptions(subjs, subject) ==
    subjectsLoop(subjs, parseList(subject, "."), 1)

(***************************************************************************)
(* write()                                                                 *)
(***************************************************************************)
\* What undefined behaviour may yield: subjects[0] of an empty vector and
\* back() of an empty string either crash or read some value.
UndefinedOutcomes ==
    [crash : BOOLEAN, element : {<< "a" >>, << "*" >>}, back : {"a", ">"}]

\* write() meets undefined behaviour only with an empty insert queue and no
\* declared subject, or an empty only subject
undefinedOutcomesOf(subjs, queue) ==
    IF queue = << >> /\ (Len(subjs) = 0 \/ (Len(subjs) = 1 /\ subjs[1] = << >>))
    THEN UndefinedOutcomes
    ELSE {[crash |-> FALSE, element |-> << "a" >>, back |-> "a"]}

\* the setting stream_like_engine_insert_queue if changed, else ""
insertQueue(changed, value) == IF changed THEN value ELSE << >>

\* a faulty variant of isWildcardSubject: only a leading '*' is found
isWildcardSubject_leading(subject, back) ==
    (subject # << >> /\ subject[1] = "*") \/ back = ">"

\* subject.find('*') != npos || subject.back() == '>', back being the value
\* back() yields
isWildcardSubject(subject, back) ==
    (\E i \in 1..Len(subject) : subject[i] = "*") \/ back = ">"

writeReturn(result, steps, subject) ==
    [result |-> result, steps |-> steps, subject |-> subject]

\* a faulty variant of writeTo: the subject is not checked against the
\* declared subjects
writeTo_unchecked(subjs, subject, back, connect_ok) ==
    IF isWildcardSubject(subject, back)
    THEN writeReturn("BAD_ARGUMENTS", << "wildcard check" >>, subject)
    ELSE IF ~connect_ok
    THEN writeReturn("CANNOT_CONNECT_NATS",
             << "wildcard check", "createConnection" >>, subject)
    ELSE writeReturn("OK",
             << "wildcard check", "createConnection", "NATSProducer" >>, subject)

\* write() from the wildcard check on, the target subject chosen
writeTo(subjs, subject, back, connect_ok) ==
    IF isWildcardSubject(subject, back)
    THEN writeReturn("BAD_ARGUMENTS", << "wildcard check" >>, subject)
    ELSE IF ~isSubjectInSubscriptions(subjs, subject)
    THEN writeReturn("BAD_ARGUMENTS",
             << "wildcard check", "isSubjectInSubscriptions" >>, subject)
    ELSE IF ~connect_ok
    THEN writeReturn("CANNOT_CONNECT_NATS",
             << "wildcard check", "isSubjectInSubscriptions",
                "createConnection" >>, subject)
    ELSE writeReturn("OK",
             << "wildcard check", "isSubjectInSubscriptions",
                "createConnection", "NATSProducer" >>, subject)

\* write(): the result, the calls made on the way, and the target subject
write(subjs, changed, value, ub, connect_ok) ==
    LET queue == insertQueue(changed, value)
    IN IF queue = << >> /\ Len(subjs) > 1
       THEN writeReturn("NUMBER_OF_ARGUMENTS_DOESNT_MATCH", << >>, queue)
       ELSE IF queue = << >> /\ Len(subjs) = 0 /\ ub.crash
       THEN writeReturn("CRASH", << >>, queue)
       ELSE
       LET subject == IF queue # << >> THEN queue
                      ELSE IF Len(subjs) = 0 THEN ub.element
                      ELSE subjs[1]
       IN IF subject = << >> /\ ub.crash
          THEN writeReturn("CRASH", << >>, subject)
          ELSE writeTo(subjs, subject,
                       IF subject = << >> THEN ub.back ELSE subject[Len(subject)],
                       connect_ok)

(***************************************************************************)
(* read()                                                                  *)
(***************************************************************************)
\* a faulty variant of readOutcome: the connection is tested before
\* mv_attached
readOutcome_connectedFirst(conn, created, allow, mv, connected) ==
    IF conn = "null" \/ created = 0 THEN "CANNOT_CONNECT_NATS"
    ELSE IF ~allow THEN "QUERY_NOT_ALLOWED"
    ELSE IF ~connected THEN "CANNOT_CONNECT_NATS"
    ELSE IF mv THEN "QUERY_NOT_ALLOWED"
    ELSE "ADMITTED"

\* a faulty variant of readOutcome: num_created_consumers is not tested
readOutcome_uncounted(conn, created, allow, mv, connected) ==
    IF conn = "null" THEN "CANNOT_CONNECT_NATS"
    ELSE IF ~allow THEN "QUERY_NOT_ALLOWED"
    ELSE IF mv THEN "QUERY_NOT_ALLOWED"
    ELSE IF ~connected THEN "CANNOT_CONNECT_NATS"
    ELSE "ADMITTED"

\* a faulty variant of readOutcome: isConnected() is not tested
readOutcome_unconnected(conn, created, allow, mv, connected) ==
    IF conn = "null" \/ created = 0 THEN "CANNOT_CONNECT_NATS"
    ELSE IF ~allow THEN "QUERY_NOT_ALLOWED"
    ELSE IF mv THEN "QUERY_NOT_ALLOWED"
    ELSE "ADMITTED"

\* The outcome of a read() call with the session setting
\* stream_like_engine_allow_direct_select = allow, in the order of the checks.
readOutcome(conn, created, allow, mv, connected) ==
    IF conn = "null" \/ created = 0 THEN "CANNOT_CONNECT_NATS"
    ELSE IF ~allow THEN "QUERY_NOT_ALLOWED"
    ELSE IF mv THEN "QUERY_NOT_ALLOWED"
    ELSE IF ~connected THEN "CANNOT_CONNECT_NATS"
    ELSE "ADMITTED"

\* what read() adds to the query plan: nothing when it throws, the empty
\* source when the united pipe is empty, else the step reading the pipe
readStep(result, created) ==
    IF result # "ADMITTED" THEN "none"
    ELSE IF created = 0 THEN "EmptySource"
    ELSE "ReadFromStorageStep"

readResult(allow) ==
    readOutcome(consumers_connection, num_created_consumers, allow, mv_attached,
                isConnected)

(***************************************************************************)
(* What a caller is handed back; nothing while no call is returning.       *)
(***************************************************************************)
NoConstruct ==
    [settings |-> << >>, throw_on_startup_failure |-> FALSE,
     queue_size |-> << >>, result |-> "none"]

NoRead == [allow |-> FALSE, result |-> "none", sources |-> 0, step |-> "none"]

NoPop == "none"

NoWrite ==
    [changed |-> FALSE, value |-> << >>, result |-> "none", steps |-> << >>,
     subject |-> << >>]

NoCand == << "?" >>

NoLaw == [subject |-> NoCand, single |-> FALSE, extended |-> FALSE]

\* no call is returning
Quiet ==
    /\ last_construct = NoConstruct
    /\ last_read = NoRead
    /\ last_write = NoWrite
    /\ last_pop = NoPop
    /\ cand = NoCand

(***************************************************************************)
(* Configurations and inputs.                                              *)
(***************************************************************************)
\* values of the setting nats_subjects
RawSubjects ==
    Strings(MaxLevels) \cup
    { << "a", ".", "*", ".", "c", ",", "x", ".", ">" >>,    \* a.*.c,x.>
      << "a", ",", " ", "b" >>,                             \* a, b
      << "a", ".", ">", ",", "*" >>,                        \* a.>,*
      << "a", ".", "*", ".", "c" >>,                        \* a.*.c
      << "a", ".", "a", ".", ">" >>,                        \* a.a.>
      << "t", ".", "*" >>,                                  \* t.*
      << "a", "*" >>,                                       \* a*
      << " " >> }

\* subjects(parseList(nats_subjects, ','))
SubjectLists == {parseList(raw, ",") : raw \in RawSubjects}

\* subjects given to the matcher and values of stream_like_engine_insert_queue
Candidates ==
    Strings(MaxLevels) \cup
    { << "a", ".", "b", ".", "c" >>,
      << "a", ".", "a", ".", "a" >>,
      << "a", "*" >>,
      << ">", "a" >>,
      << "x", ".", "y", ".", "z", ".", "w" >>,
      << "a", ".", "c" >>,
      << "x" >>,
      << "b" >>,
      << "t", ".", "a" >>,
      << "t", ".", "b" >>,
      << "t", ".", "a", ".", "b" >>,
      << "x", ".", "y" >>,
      << "a", ".", " ", "b", ".", "c" >> }

\* insert queues tried against the engine of Spec
EngineQueues == { << "*" >> }

\* the session setting stream_like_engine_insert_queue: unchanged, or changed
\* to a value of queues
\* the pairs of a subject and a declared subject that accepts it alone
LawInputs ==
    { in \in Strings(MaxLevels) \X Strings(MaxLevels) :
        isSubjectInSubscriptions(<< in[2] >>, in[1]) }

WriteInputs(queues) == ({FALSE} \X {<< >>}) \cup ({TRUE} \X queues)

(***************************************************************************)
(* Initial states.  Init: the members as their initializers leave them,    *)
(* before the constructor body runs.  InitWrite: a constructed engine for  *)
(* every configuration of subjects.                                        *)
(***************************************************************************)
InitMembers ==
    /\ started = FALSE
    /\ write_connections = 0
    /\ num_created_consumers = 0
    /\ consumers = << >>
    /\ semaphore = 0
    /\ pool_pc = NoPoolCall
    /\ consumers_ready = FALSE
    /\ mv_attached = FALSE
    /\ shutdown_called = FALSE
    /\ drop_table = FALSE
    /\ task_active = [t \in Tasks |-> FALSE]
    /\ task_scheduled = [t \in Tasks |-> "no"]
    /\ init_pc = "idle"
    /\ stream_pc = "idle"
    /\ consumers_queues_are_empty = FALSE
    /\ stream_try = "none"
    /\ elapsed = 0
    /\ stream_leased = NoLease
    /\ shutdown_pc = "idle"
    /\ drained = 0
    /\ num_views = 0
    /\ views_resolvable = TRUE
    /\ reads_in_progress = 0
    /\ read_leased = NoLease
    /\ last_construct = NoConstruct
    /\ last_read = NoRead
    /\ last_write = NoWrite
    /\ last_pop = NoPop
    /\ cand = NoCand
    /\ match_result = FALSE
    /\ match_law = NoLaw

Init ==
    /\ num_consumers \in 1..MaxConsumers
    /\ subjects = parseList(<< "t" >>, ",")
    /\ constructed = "no"
    /\ event_loop = "none"
    /\ consumers_connection = "null"
    /\ consumer_connections = 0
    /\ broker_up \in BOOLEAN
    /\ InitMembers

InitWrite ==
    /\ num_consumers = 1
    /\ subjects \in SubjectLists
    /\ constructed = "yes"
    /\ event_loop = "running"
    /\ consumers_connection = "open"
    /\ consumer_connections = 1
    /\ broker_up \in BOOLEAN
    /\ InitMembers

(***************************************************************************)
(* The consumer connection.                                                *)
(***************************************************************************)
\* event_handler.createConnection(configuration): the handshake succeeds iff
\* the broker is reachable
createConnection_ok == broker_up

\* a faulty variant of createConsumersConnection_ok: a missing connection is
\* never made
createConsumersConnection_never == consumers_connection # "null"

\* createConsumersConnection returns normally: the connection exists, or the
\* handshake succeeds
createConsumersConnection_ok == consumers_connection # "null" \/ createConnection_ok

\* a faulty variant of createConsumersConnection: the existing connection is
\* not looked at
createConsumersConnection_unguarded ==
    /\ consumers_connection' = "open"
    /\ consumer_connections' = consumer_connections + 1

\* createConsumersConnection: nothing if the connection exists
createConsumersConnection ==
    IF consumers_connection # "null"
    THEN UNCHANGED connVars
    ELSE /\ consumers_connection' = "open"
         /\ consumer_connections' = consumer_connections + 1

(***************************************************************************)
(* Table creation: the checks of the factory's creator function, then the  *)
(* constructor.                                                            *)
(***************************************************************************)
HandleErrorModes == {"DEFAULT", "STREAM", "DEAD_LETTER_QUEUE"}

\* the settings of a CREATE/ATTACH query: whether the engine has settings (or
\* a named collection) at all, which settings are given (.changed), and
\* nats_handle_error_mode
(***************************************************************************)
(* 64-bit unsigned integers, as four 16-bit limbs, the most significant     *)
(* first, and the arithmetic of the queue size on them.                     *)
(***************************************************************************)
Limb == 2^16

QUEUE_SIZE == 100000

\* the UInt64 of a natural number below 2^31
toUInt64(n) == << 0, 0, n \div Limb, n % Limb >>

\* static_cast<uint32_t>(x): the low 32 bits
static_cast_uint32(x) == << 0, 0, x[3], x[4] >>

\* a faulty variant of static_cast_uint32: the low 16 bits
static_cast_uint16(x) == << 0, 0, 0, x[4] >>

\* a < b
lessUInt64(a, b) ==
    \E i \in 1..4 : a[i] < b[i] /\ \A j \in 1..(i - 1) : a[j] = b[j]

\* std::max(a, b)
maxUInt64(a, b) == IF lessUInt64(a, b) THEN b ELSE a

RECURSIVE divLimbs(_, _, _)
divLimbs(x, n, rem) ==
    IF x = << >> THEN << >>
    ELSE LET cur == rem * Limb + Head(x)
         IN << cur \div n >> \o divLimbs(Tail(x), n, cur % n)

\* x / n, unsigned integer division
divUInt64(x, n) == divLimbs(x, n, 0)

\* the block sizes a configuration is given: around QUEUE_SIZE, around 2^32,
\* and the largest UInt64
BlockSizes ==
    { toUInt64(0), toUInt64(QUEUE_SIZE - 1), toUInt64(2 * QUEUE_SIZE + 3),
      << 0, 0, Limb - 1, Limb - 1 >>, << 0, 1, 0, 0 >>,
      << 0, 1, 3, 3395 >>, << Limb - 1, Limb - 1, Limb - 1, Limb - 1 >> }

Settings ==
    [has_settings : BOOLEAN, nats_url : BOOLEAN, nats_server_list : BOOLEAN,
     nats_format : BOOLEAN, nats_subjects : BOOLEAN,
     nats_handle_error_mode : HandleErrorModes,
     nats_max_block_size : [changed : BOOLEAN, value : BlockSizes],
     max_insert_block_size : BlockSizes]

\* getMaxBlockSize()
getMaxBlockSize(settings, N) ==
    IF settings.nats_max_block_size.changed
    THEN settings.nats_max_block_size.value
    ELSE divUInt64(settings.max_insert_block_size, N)

\* queue_size as the constructor's initializer list computes it
queueSize(settings, N) ==
    maxUInt64(toUInt64(QUEUE_SIZE), static_cast_uint32(getMaxBlockSize(settings, N)))

\* settings that pass the creator function's checks
givenSettings(handle_error_mode) ==
    [has_settings |-> TRUE, nats_url |-> TRUE, nats_server_list |-> FALSE,
     nats_format |-> TRUE, nats_subjects |-> TRUE,
     nats_handle_error_mode |-> handle_error_mode,
     nats_max_block_size |-> [changed |-> FALSE, value |-> toUInt64(0)],
     max_insert_block_size |-> toUInt64(2 * QUEUE_SIZE + 3)]

\* a faulty variant of creator_fn: nats_format is not required
creator_fn_formatless(settings) ==
    IF ~settings.has_settings THEN "BAD_ARGUMENTS"
    ELSE IF ~settings.nats_url /\ ~settings.nats_server_list
    THEN "NUMBER_OF_ARGUMENTS_DOESNT_MATCH"
    ELSE IF ~settings.nats_subjects THEN "NUMBER_OF_ARGUMENTS_DOESNT_MATCH"
    ELSE "construct"

\* the checks of creator_fn, in order; "construct" when all pass
creator_fn(settings) ==
    IF ~settings.has_settings THEN "BAD_ARGUMENTS"
    ELSE IF ~settings.nats_url /\ ~settings.nats_server_list
    THEN "NUMBER_OF_ARGUMENTS_DOESNT_MATCH"
    ELSE IF ~settings.nats_format THEN "NUMBER_OF_ARGUMENTS_DOESNT_MATCH"
    ELSE IF ~settings.nats_subjects THEN "NUMBER_OF_ARGUMENTS_DOESNT_MATCH"
    ELSE "construct"

\* addSettings(context): throws for DEAD_LETTER_QUEUE
addSettings(handle_error_mode) ==
    IF handle_error_mode = "DEAD_LETTER_QUEUE" THEN "BAD_ARGUMENTS" ELSE "ok"

\* a faulty variant of Construct: the error is rethrown without
\* stopEventLoop()
Construct_unstopped(settings, throw_on_startup_failure) ==
    /\ Quiet
    /\ constructed = "no"
    /\ IF addSettings(settings.nats_handle_error_mode) = "BAD_ARGUMENTS"
       THEN /\ constructed' = "failed"
            /\ last_construct' =
                   [settings |-> settings,
                    throw_on_startup_failure |-> throw_on_startup_failure,
                    queue_size |-> queueSize(settings, num_consumers),
                    result |-> "BAD_ARGUMENTS"]
            /\ UNCHANGED << event_loop, connVars >>
       ELSE /\ IF createConsumersConnection_ok
               THEN /\ createConsumersConnection
                    /\ constructed' = "yes"
                    /\ event_loop' = "running"
               ELSE /\ UNCHANGED connVars
                    /\ constructed' = IF throw_on_startup_failure THEN "failed" ELSE "yes"
                    /\ event_loop' = "running"
            /\ last_construct' =
                   [settings |-> settings,
                    throw_on_startup_failure |-> throw_on_startup_failure,
                    queue_size |-> queueSize(settings, num_consumers),
                    result |-> IF createConsumersConnection_ok \/ ~throw_on_startup_failure
                               THEN "constructed" ELSE "CANNOT_CONNECT_NATS"]
    /\ task_active' = [t \in Tasks |-> FALSE]
    /\ task_scheduled' = [t \in Tasks |-> "no"]
    /\ UNCHANGED << configVars, started, drained, write_connections, poolVars,
                    consumers_ready, mv_attached, shutdown_called, drop_table,
                    init_pc, stream_pc, streamLocals, shutdown_pc, envVars,
                    readVars, last_read, last_write, cand, match_result,
                    match_law, last_pop, pool_pc >>

(***************************************************************************)
(* The constructor body: addSettings() (throws before the event-loop       *)
(* thread exists), spawn the event-loop thread, try to connect, create     *)
(* both tasks deactivated.  A failed connect is rethrown iff               *)
(* throw_on_startup_failure (mode <= CREATE), after stopEventLoop().       *)
(***************************************************************************)
Construct(settings, throw_on_startup_failure) ==
    /\ Quiet
    /\ constructed = "no"
    /\ IF addSettings(settings.nats_handle_error_mode) = "BAD_ARGUMENTS"
       THEN /\ constructed' = "failed"
            /\ last_construct' =
                   [settings |-> settings,
                    throw_on_startup_failure |-> throw_on_startup_failure,
                    queue_size |-> queueSize(settings, num_consumers),
                    result |-> "BAD_ARGUMENTS"]
            /\ UNCHANGED << event_loop, connVars >>
       ELSE /\ IF createConsumersConnection_ok
               THEN /\ createConsumersConnection
                    /\ constructed' = "yes"
                    /\ event_loop' = "running"
               ELSE /\ UNCHANGED connVars
                    /\ constructed' = IF throw_on_startup_failure THEN "failed" ELSE "yes"
                    /\ event_loop' = IF throw_on_startup_failure THEN "stopped" ELSE "running"
            /\ last_construct' =
                   [settings |-> settings,
                    throw_on_startup_failure |-> throw_on_startup_failure,
                    queue_size |-> queueSize(settings, num_consumers),
                    result |-> IF createConsumersConnection_ok \/ ~throw_on_startup_failure
                               THEN "constructed" ELSE "CANNOT_CONNECT_NATS"]
    /\ task_active' = [t \in Tasks |-> FALSE]
    /\ task_scheduled' = [t \in Tasks |-> "no"]
    /\ UNCHANGED << configVars, started, drained, write_connections, poolVars,
                    consumers_ready, mv_attached, shutdown_called, drop_table,
                    init_pc, stream_pc, streamLocals, shutdown_pc, envVars,
                    readVars, last_read, last_write, cand, match_result,
                    match_law, last_pop, pool_pc >>

\* the constructor called with settings that passed the creator function
Constructor ==
    \E handle_error_mode \in HandleErrorModes, throw_on_startup_failure \in BOOLEAN :
        Construct(givenSettings(handle_error_mode), throw_on_startup_failure)

\* the creator function of the storage factory
CreateTable(settings, throw_on_startup_failure) ==
    IF creator_fn(settings) = "construct"
    THEN Construct(settings, throw_on_startup_failure)
    ELSE /\ Quiet
         /\ constructed = "no"
         /\ constructed' = "failed"
         /\ last_construct' =
                [settings |-> settings,
                 throw_on_startup_failure |-> throw_on_startup_failure,
                 queue_size |-> << >>,
                 result |-> creator_fn(settings)]
         /\ UNCHANGED << configVars, started, event_loop, drained, connVars,
                         write_connections, poolVars, consumers_ready,
                         mv_attached, shutdown_called, drop_table, taskVars,
                         init_pc, stream_pc, streamLocals, shutdown_pc, envVars,
                         readVars, last_read, last_write, cand, match_result,
                         match_law, last_pop, pool_pc >>

\* startup(): initialize_consumers_task->activateAndSchedule()
Startup ==
    /\ Quiet
    /\ constructed = "yes"
    /\ ~started
    /\ ~shutdown_called
    /\ started' = TRUE
    /\ task_active' = [task_active EXCEPT !["init"] = TRUE]
    /\ task_scheduled' = [task_scheduled EXCEPT !["init"] = "now"]
    /\ UNCHANGED << configVars, constructed, event_loop, drained, connVars,
                    write_connections, poolVars, consumers_ready, mv_attached,
                    shutdown_called, drop_table, init_pc, stream_pc, streamLocals,
                    shutdown_pc, envVars, readVars, obsVars, pool_pc >>

\* a faulty variant of InitializeStart: createConsumers() does not test
\* num_created_consumers
InitializeStart_recreating ==
    /\ Quiet
    /\ taskRunnable("init", init_pc)
    /\ IF consumers_ready
       THEN /\ task_scheduled' = [task_scheduled EXCEPT !["init"] = "no"]
            /\ UNCHANGED << connVars, poolVars, init_pc >>
       ELSE IF ~createConsumersConnection_ok
       THEN /\ task_scheduled' = [task_scheduled EXCEPT !["init"] = "after"]
            /\ UNCHANGED << connVars, poolVars, init_pc >>
       ELSE /\ createConsumersConnection
            /\ task_scheduled' = [task_scheduled EXCEPT !["init"] = "no"]
            /\ init_pc' = "views"
            /\ IF FALSE
               THEN UNCHANGED poolVars
               ELSE \E k \in 0..num_consumers :
                      /\ consumers' = consumers \o createdList(k)
                      /\ semaphore' = semaphore + k
                      /\ num_created_consumers' = k
    /\ UNCHANGED << configVars, lifeVars, write_connections, consumers_ready,
                    mv_attached, shutdown_called, drop_table, task_active,
                    stream_pc, streamLocals, shutdown_pc, envVars, readVars,
                    obsVars, pool_pc >>

(***************************************************************************)
(* initializeConsumersFunc, in three steps.                                *)
(***************************************************************************)
\* Entry: return if consumers_ready; else createConsumersConnection() and
\* createConsumers(); an exception reschedules after RESCHEDULE_MS.
\* k is the number of createConsumer() constructions that succeed.
InitializeStart ==
    /\ Quiet
    /\ taskRunnable("init", init_pc)
    /\ IF consumers_ready
       THEN /\ task_scheduled' = [task_scheduled EXCEPT !["init"] = "no"]
            /\ UNCHANGED << connVars, poolVars, init_pc >>
       ELSE IF ~createConsumersConnection_ok
       THEN /\ task_scheduled' = [task_scheduled EXCEPT !["init"] = "after"]
            /\ UNCHANGED << connVars, poolVars, init_pc >>
       ELSE /\ createConsumersConnection
            /\ task_scheduled' = [task_scheduled EXCEPT !["init"] = "no"]
            /\ init_pc' = "views"
            /\ IF num_created_consumers # 0
               THEN UNCHANGED poolVars
               ELSE \E k \in 0..num_consumers :
                      /\ consumers' = consumers \o createdList(k)
                      /\ semaphore' = semaphore + k
                      /\ num_created_consumers' = k
    /\ UNCHANGED << configVars, lifeVars, write_connections, consumers_ready,
                    mv_attached, shutdown_called, drop_table, task_active,
                    stream_pc, streamLocals, shutdown_pc, envVars, readVars,
                    obsVars, pool_pc >>

\* a faulty variant of InitializeViews: the number of views is not tested
InitializeViews_unchecked ==
    /\ Quiet
    /\ init_pc = "views"
    /\ mv_attached' = TRUE
    /\ init_pc' = "subscribe"
    /\ UNCHANGED << configVars, lifeVars, connVars, write_connections, poolVars,
                    consumers_ready, shutdown_called, drop_table, taskVars,
                    stream_pc, streamLocals, shutdown_pc, envVars, readVars,
                    obsVars, pool_pc >>

\* getDependentViews(): none -> reschedule; else mv_attached.store(true)
InitializeViews ==
    /\ Quiet
    /\ init_pc = "views"
    /\ IF num_views = 0
       THEN /\ task_scheduled' = schedule(task_scheduled, task_active, "init", "after")
            /\ init_pc' = "idle"
            /\ UNCHANGED mv_attached
       ELSE /\ mv_attached' = TRUE
            /\ init_pc' = "subscribe"
            /\ UNCHANGED task_scheduled
    /\ UNCHANGED << configVars, lifeVars, connVars, write_connections, poolVars,
                    consumers_ready, shutdown_called, drop_table, task_active,
                    stream_pc, streamLocals, shutdown_pc, envVars, readVars,
                    obsVars, pool_pc >>

\* subscribeConsumers() under consumers_mutex; on success activate the
\* streaming task, else reschedule.  num_initialized consumers are subscribed
\* before the loop ends (= Len) or a subscribe() throws (< Len).
InitializeSubscribe ==
    /\ Quiet
    /\ init_pc = "subscribe"
    /\ \E num_initialized \in 0..Len(consumers) :
         /\ consumers' = subscribeLoop(consumers, num_initialized)
         /\ IF are_consumers_initialized(num_initialized, num_created_consumers)
            THEN /\ consumers_ready' = TRUE
                 /\ task_active' = [task_active EXCEPT !["stream"] = TRUE]
                 /\ task_scheduled' = [task_scheduled EXCEPT !["stream"] = "now"]
            ELSE /\ UNCHANGED << consumers_ready, task_active >>
                 /\ task_scheduled' = schedule(task_scheduled, task_active, "init", "after")
    /\ init_pc' = "idle"
    /\ UNCHANGED << configVars, lifeVars, connVars, write_connections,
                    num_created_consumers, semaphore, mv_attached, shutdown_called,
                    drop_table, stream_pc, streamLocals, shutdown_pc, envVars,
                    readVars, obsVars, pool_pc >>

(***************************************************************************)
(* streamingToViewsFunc.                                                   *)
(***************************************************************************)
RESCHEDULE_MS == 500

MAX_THREAD_WORK_DURATION_MS == 60000

\* the times an activation can have worked at the end of a pass: below, at
\* and above the cap
Durations ==
    {RESCHEDULE_MS, MAX_THREAD_WORK_DURATION_MS, MAX_THREAD_WORK_DURATION_MS + 1}

\* a faulty variant of durationExceeded: one millisecond over is let through
durationExceeded_late(duration) == duration > MAX_THREAD_WORK_DURATION_MS + 1

\* duration.count() > MAX_THREAD_WORK_DURATION_MS
durationExceeded(duration) == duration > MAX_THREAD_WORK_DURATION_MS

\* checkDependencies: at least one dependent view, and every one resolves
\* in the catalog, a materialized view with its target table
checkDependencies == num_views > 0 /\ views_resolvable

\* Entry: with a healthy connection set mv_attached and enter the loop
StreamingStart ==
    /\ Quiet
    /\ taskRunnable("stream", stream_pc)
    /\ task_scheduled' = [task_scheduled EXCEPT !["stream"] = "no"]
    /\ consumers_queues_are_empty' = FALSE
    /\ elapsed' = 0
    /\ IF isConnected
       THEN /\ mv_attached' = TRUE
            /\ stream_pc' = "loop"
            /\ stream_try' = "entered"
       ELSE /\ UNCHANGED mv_attached
            /\ stream_pc' = "post"
            /\ stream_try' = "skipped"
    /\ UNCHANGED << configVars, lifeVars, connVars, write_connections, poolVars,
                    consumers_ready, shutdown_called, drop_table, task_active,
                    init_pc, stream_leased, shutdown_pc, envVars, readVars,
                    obsVars, pool_pc >>

\* a faulty variant of StreamingLoop: the loop does not test shutdown_called
StreamingLoop_uncancelled ==
    /\ Quiet
    /\ stream_pc = "loop"
    /\ IF num_created_consumers = 0
       THEN /\ stream_pc' = "post"
            /\ UNCHANGED consumers_queues_are_empty
       ELSE IF ~checkDependencies
       THEN /\ stream_pc' = "post"
            /\ consumers_queues_are_empty' = TRUE
       ELSE /\ stream_pc' = "pass"
            /\ UNCHANGED consumers_queues_are_empty
    /\ UNCHANGED << configVars, lifeVars, connVars, write_connections, poolVars,
                    consumers_ready, mv_attached, shutdown_called, drop_table,
                    taskVars, init_pc, stream_try, elapsed, stream_leased, shutdown_pc,
                    envVars, readVars, obsVars, pool_pc >>

\* Loop head: while (!shutdown_called && num_created_consumers > 0); without
\* dependencies break with consumers_queues_are_empty; else streamToViews()
\* builds its sources and starts executing the pipeline
StreamingLoop ==
    /\ Quiet
    /\ stream_pc = "loop"
    /\ IF shutdown_called \/ num_created_consumers = 0
       THEN /\ stream_pc' = "post"
            /\ UNCHANGED consumers_queues_are_empty
       ELSE IF ~checkDependencies
       THEN /\ stream_pc' = "post"
            /\ consumers_queues_are_empty' = TRUE
       ELSE /\ stream_pc' = "pass"
            /\ UNCHANGED consumers_queues_are_empty
    /\ UNCHANGED << configVars, lifeVars, connVars, write_connections, poolVars,
                    consumers_ready, mv_attached, shutdown_called, drop_table,
                    taskVars, init_pc, stream_try, elapsed, stream_leased, shutdown_pc,
                    envVars, readVars, obsVars, pool_pc >>

\* A source of the running pass leases a consumer: popConsumer(timeout)
StreamingSourcePop ==
    /\ Quiet
    /\ stream_pc = "pass"
    /\ leaseSize(stream_leased) < num_created_consumers
    /\ semaphore > 0
    /\ stream_leased' = leaseAdd(stream_leased, popConsumerResult(consumers))
    /\ consumers' = Front(consumers)
    /\ semaphore' = semaphore - 1
    /\ UNCHANGED << configVars, lifeVars, connVars, write_connections,
                    num_created_consumers, consumers_ready, mv_attached,
                    shutdown_called, drop_table, taskVars, init_pc, stream_pc,
                    consumers_queues_are_empty, stream_try, elapsed, shutdown_pc,
                    envVars, readVars, obsVars, pool_pc >>

\* every order in which the sources holding the consumers of held can hand
\* them back
pushOrders(held) ==
    {order \in [1..leaseSize(held) -> BOOLEAN] :
        Cardinality({i \in 1..leaseSize(held) : order[i]}) = held[TRUE]}

\* The pass ends: the sources are destroyed and push their consumers back.
\* streamToViews() returns true (connection down, or all queues empty),
\* false (some queue not empty), or throws.
StreamingPassEnd ==
    /\ Quiet
    /\ stream_pc = "pass"
    /\ \E order \in pushOrders(stream_leased) :
         /\ consumers' = consumers \o order
         /\ semaphore' = semaphore + Len(order)
    /\ stream_leased' = NoLease
    /\ \E outcome \in {"throws", "true", "false"}, end_time \in Durations :
         /\ end_time >= elapsed
         /\ (~isConnected) => outcome \in {"throws", "true"}
         /\ elapsed' = end_time
         /\ stream_try' = IF outcome = "throws" THEN "threw" ELSE "passed"
         /\ CASE outcome = "throws" ->
                   /\ stream_pc' = "post"
                   /\ UNCHANGED consumers_queues_are_empty
              [] outcome = "true" ->
                   /\ stream_pc' = "post"
                   /\ consumers_queues_are_empty' = TRUE
              [] outcome = "false" ->
                   IF durationExceeded(end_time)
                   THEN /\ stream_pc' = "post"
                        /\ consumers_queues_are_empty' = FALSE
                   ELSE /\ stream_pc' = "loop"
                        /\ UNCHANGED consumers_queues_are_empty
    /\ pool_pc' = [pool_pc EXCEPT !.ending = FALSE]
    /\ UNCHANGED << configVars, lifeVars, connVars, write_connections,
                    num_created_consumers, consumers_ready, mv_attached,
                    shutdown_called, drop_table, taskVars, init_pc, shutdown_pc,
                    envVars, readVars, obsVars >>

\* a faulty variant of StreamingPost: shutdown_called is not tested
StreamingPost_unstopped ==
    /\ Quiet
    /\ stream_pc = "post"
    /\ IF FALSE
       THEN /\ stream_pc' = "idle"
            /\ UNCHANGED << task_scheduled, consumers, consumers_ready >>
       ELSE IF num_views # 0
       THEN /\ stream_pc' = "idle"
            /\ task_scheduled' = schedule(task_scheduled, task_active, "stream",
                   IF consumers_queues_are_empty THEN "after" ELSE "now")
            /\ UNCHANGED << consumers, consumers_ready >>
       ELSE /\ IF consumers_ready
               THEN /\ consumers' = unsubscribeLoop(consumers)
                    /\ consumers_ready' = FALSE
               ELSE UNCHANGED << consumers, consumers_ready >>
            /\ IF ~consumers_queues_are_empty
               THEN /\ task_scheduled' = schedule(task_scheduled, task_active, "stream", "now")
                    /\ stream_pc' = "idle"
               ELSE /\ task_scheduled' = schedule(task_scheduled, task_active, "init", "now")
                    /\ stream_pc' = "clear"
    /\ stream_try' = "none"
    /\ elapsed' = 0
    /\ UNCHANGED << configVars, lifeVars, connVars, write_connections,
                    num_created_consumers, semaphore, mv_attached, shutdown_called,
                    drop_table, task_active, init_pc, consumers_queues_are_empty,
                    stream_leased, shutdown_pc, envVars, readVars, obsVars,
                    pool_pc >>

\* After the loop: return on shutdown; with views reschedule itself; without
\* views unsubscribe (if consumers_ready), and either reschedule itself or
\* schedule the initializer
StreamingPost ==
    /\ Quiet
    /\ stream_pc = "post"
    /\ IF shutdown_called
       THEN /\ stream_pc' = "idle"
            /\ UNCHANGED << task_scheduled, consumers, consumers_ready >>
       ELSE IF num_views # 0
       THEN /\ stream_pc' = "idle"
            /\ task_scheduled' = schedule(task_scheduled, task_active, "stream",
                   IF consumers_queues_are_empty THEN "after" ELSE "now")
            /\ UNCHANGED << consumers, consumers_ready >>
       ELSE /\ IF consumers_ready
               THEN /\ consumers' = unsubscribeLoop(consumers)
                    /\ consumers_ready' = FALSE
               ELSE UNCHANGED << consumers, consumers_ready >>
            /\ IF ~consumers_queues_are_empty
               THEN /\ task_scheduled' = schedule(task_scheduled, task_active, "stream", "now")
                    /\ stream_pc' = "idle"
               ELSE /\ task_scheduled' = schedule(task_scheduled, task_active, "init", "now")
                    /\ stream_pc' = "clear"
    /\ stream_try' = "none"
    /\ elapsed' = 0
    /\ UNCHANGED << configVars, lifeVars, connVars, write_connections,
                    num_created_consumers, semaphore, mv_attached, shutdown_called,
                    drop_table, task_active, init_pc, consumers_queues_are_empty,
                    stream_leased, shutdown_pc, envVars, readVars, obsVars,
                    pool_pc >>

\* the last statement: mv_attached.store(false)
StreamingClear ==
    /\ Quiet
    /\ stream_pc = "clear"
    /\ mv_attached' = FALSE
    /\ stream_pc' = "idle"
    /\ UNCHANGED << configVars, lifeVars, connVars, write_connections, poolVars,
                    consumers_ready, shutdown_called, drop_table, taskVars, init_pc,
                    streamLocals, shutdown_pc, envVars, readVars, obsVars,
                    pool_pc >>

(***************************************************************************)
(* read() and the sources of an admitted direct-read pipeline.             *)
(***************************************************************************)
\* read() with stream_like_engine_allow_direct_select = allow; an admitted
\* read appends the pipeline of num_created_consumers sources to the plan
Read(allow) ==
    /\ constructed = "yes"
    /\ Quiet
    /\ last_read' =
           [allow |-> allow, result |-> readResult(allow),
            sources |-> IF readResult(allow) = "ADMITTED"
                        THEN num_created_consumers ELSE 0,
            step |-> readStep(readResult(allow), num_created_consumers)]
    /\ IF readResult(allow) = "ADMITTED"
       THEN /\ reads_in_progress + write_connections < MaxCalls
            /\ reads_in_progress' = reads_in_progress + 1
       ELSE UNCHANGED reads_in_progress
    /\ UNCHANGED << configVars, lifeVars, connVars, write_connections, poolVars,
                    consumers_ready, mv_attached, shutdown_called, drop_table,
                    taskVars, init_pc, stream_pc, streamLocals, shutdown_pc,
                    envVars, read_leased, last_construct, last_write, cand,
                    match_result, match_law, last_pop, pool_pc >>

\* a source of a direct read leases a consumer: popConsumer(timeout)
ReadSourcePop ==
    /\ Quiet
    /\ reads_in_progress > 0
    /\ leaseSize(read_leased) < reads_in_progress * num_created_consumers
    /\ semaphore > 0
    /\ read_leased' = leaseAdd(read_leased, popConsumerResult(consumers))
    /\ consumers' = Front(consumers)
    /\ semaphore' = semaphore - 1
    /\ UNCHANGED << configVars, lifeVars, connVars, write_connections,
                    num_created_consumers, consumers_ready, mv_attached,
                    shutdown_called, drop_table, taskVars, init_pc, stream_pc,
                    streamLocals, shutdown_pc, envVars, reads_in_progress,
                    obsVars, pool_pc >>

\* popConsumer(timeout) of a source, with a positive timeout, when no permit
\* arrives in time: tryWait() fails and the call returns nullptr
SourcePopTimeout ==
    /\ Quiet
    /\ \/ stream_pc = "pass" /\ leaseSize(stream_leased) < num_created_consumers
       \/ /\ reads_in_progress > 0
          /\ leaseSize(read_leased) < reads_in_progress * num_created_consumers
    /\ semaphore = 0
    /\ last_pop' = "nullptr"
    /\ UNCHANGED << configVars, lifeVars, connVars, write_connections, poolVars,
                    consumers_ready, mv_attached, shutdown_called, drop_table,
                    taskVars, init_pc, stream_pc, streamLocals, shutdown_pc,
                    envVars, readVars, last_construct, last_read, last_write,
                    cand, match_result, match_law, pool_pc >>

\* a source of a direct read is destroyed: pushConsumer(consumer)
ReadSourcePush ==
    /\ Quiet
    /\ \E consumer \in {sub \in BOOLEAN : read_leased[sub] > 0} :
         /\ read_leased' = leaseRemove(read_leased, consumer)
         /\ consumers' = pushConsumer(consumers, consumer)
    /\ semaphore' = semaphore + 1
    /\ UNCHANGED << configVars, lifeVars, connVars, write_connections,
                    num_created_consumers, consumers_ready, mv_attached,
                    shutdown_called, drop_table, taskVars, init_pc, stream_pc,
                    streamLocals, shutdown_pc, envVars, reads_in_progress,
                    obsVars, pool_pc >>

\* a direct-read pipeline finishes once its sources are gone
ReadFinish ==
    /\ Quiet
    /\ reads_in_progress > 0
    /\ leaseSize(read_leased) <= (reads_in_progress - 1) * num_created_consumers
    /\ reads_in_progress' = reads_in_progress - 1
    /\ UNCHANGED << configVars, lifeVars, connVars, write_connections, poolVars,
                    consumers_ready, mv_attached, shutdown_called, drop_table,
                    taskVars, init_pc, stream_pc, streamLocals, shutdown_pc,
                    envVars, read_leased, obsVars, pool_pc >>

(***************************************************************************)
(* write() as called, the sink it returns, and a call of the matcher.      *)
(***************************************************************************)
\* a faulty variant of Write: the producer is given the consumer connection
\* when there is an open one
Write_shared(changed, value) ==
    /\ constructed = "yes"
    /\ Quiet
    /\ \E ub \in undefinedOutcomesOf(subjects, insertQueue(changed, value)) :
         LET w == write(subjects, changed, value, ub, createConnection_ok)
         IN /\ IF w.result = "OK"
               THEN /\ reads_in_progress + write_connections < MaxCalls
                    /\ write_connections' =
                           IF consumers_connection = "open"
                           THEN write_connections
                           ELSE write_connections + 1
               ELSE UNCHANGED write_connections
            /\ last_write' = [changed |-> changed, value |-> value,
                              result |-> w.result, steps |-> w.steps,
                              subject |-> w.subject]
    /\ UNCHANGED << configVars, lifeVars, connVars, poolVars, consumers_ready,
                    mv_attached, shutdown_called, drop_table, taskVars, init_pc,
                    stream_pc, streamLocals, shutdown_pc, envVars, readVars,
                    last_construct, last_read, cand, match_result, match_law,
                    last_pop, pool_pc >>

\* write() with stream_like_engine_insert_queue (changed, value); a
\* successful call leaves a sink whose producer owns a new connection
Write(changed, value) ==
    /\ constructed = "yes"
    /\ Quiet
    /\ \E ub \in undefinedOutcomesOf(subjects, insertQueue(changed, value)) :
         LET w == write(subjects, changed, value, ub, createConnection_ok)
         IN /\ IF w.result = "OK"
               THEN /\ reads_in_progress + write_connections < MaxCalls
                    /\ write_connections' = write_connections + 1
               ELSE UNCHANGED write_connections
            /\ last_write' = [changed |-> changed, value |-> value,
                              result |-> w.result, steps |-> w.steps,
                              subject |-> w.subject]
    /\ UNCHANGED << configVars, lifeVars, connVars, poolVars, consumers_ready,
                    mv_attached, shutdown_called, drop_table, taskVars, init_pc,
                    stream_pc, streamLocals, shutdown_pc, envVars, readVars,
                    last_construct, last_read, cand, match_result, match_law,
                    last_pop, pool_pc >>

\* the sink is destroyed, and with it the producer and its connection
WriteFinish ==
    /\ Quiet
    /\ write_connections > 0
    /\ write_connections' = write_connections - 1
    /\ UNCHANGED << configVars, lifeVars, connVars, poolVars, consumers_ready,
                    mv_attached, shutdown_called, drop_table, taskVars, init_pc,
                    stream_pc, streamLocals, shutdown_pc, envVars, readVars,
                    obsVars, pool_pc >>

\* isSubjectInSubscriptions(subject) on the engine's declared subjects
Match(subject) ==
    /\ constructed = "yes"
    /\ Quiet
    /\ cand' = subject
    /\ match_result' = isSubjectInSubscriptions(subjects, subject)
    /\ UNCHANGED << configVars, lifeVars, connVars, write_connections, poolVars,
                    consumers_ready, mv_attached, shutdown_called, drop_table,
                    taskVars, init_pc, stream_pc, streamLocals, shutdown_pc,
                    envVars, readVars, last_construct, last_read, last_write,
                    match_law, last_pop, pool_pc >>

\* isSubjectInSubscriptions(subject) three times: on the declared subjects,
\* on the subject d alone, and on the declared subjects with d added
MatchLaw(subject, d) ==
    /\ constructed = "yes"
    /\ Quiet
    /\ cand' = subject
    /\ match_result' = isSubjectInSubscriptions(subjects, subject)
    /\ match_law' = [subject |-> d,
                     single |-> isSubjectInSubscriptions(<< d >>, subject),
                     extended |-> isSubjectInSubscriptions(Append(subjects, d), subject)]
    /\ UNCHANGED << configVars, lifeVars, connVars, write_connections, poolVars,
                    consumers_ready, mv_attached, shutdown_called, drop_table,
                    taskVars, init_pc, stream_pc, streamLocals, shutdown_pc,
                    envVars, readVars, last_construct, last_read, last_write,
                    last_pop, pool_pc >>

\* the caller has taken what the returning call handed back
Return ==
    /\ ~Quiet
    /\ last_construct' = NoConstruct
    /\ last_read' = NoRead
    /\ last_write' = NoWrite
    /\ last_pop' = NoPop
    /\ cand' = NoCand
    /\ match_result' = FALSE
    /\ match_law' = NoLaw
    /\ UNCHANGED << configVars, lifeVars, connVars, write_connections, poolVars,
                    consumers_ready, mv_attached, shutdown_called, drop_table,
                    taskVars, init_pc, stream_pc, streamLocals, shutdown_pc,
                    envVars, readVars, pool_pc >>

(***************************************************************************)
(* shutdown(), step by step.                                               *)
(***************************************************************************)
\* shutdown() is entered; drop_table is true iff checkTableCanBeDropped() ran
\* before (a DROP), which nothing else reads
ShutdownBegin ==
    /\ Quiet
    /\ constructed = "yes"
    /\ shutdown_pc = "idle"
    /\ shutdown_called' = TRUE
    /\ drop_table' \in BOOLEAN
    /\ shutdown_pc' = "deactivate_streaming"
    /\ UNCHANGED << configVars, lifeVars, connVars, write_connections, poolVars,
                    consumers_ready, mv_attached, taskVars, init_pc, stream_pc,
                    streamLocals, envVars, readVars, obsVars, pool_pc >>

\* deactivateTask(task): deactivate() first disarms the task ...
ShutdownDeactivate(t, pc, next) ==
    /\ Quiet
    /\ shutdown_pc = pc
    /\ task_active' = [task_active EXCEPT ![t] = FALSE]
    /\ task_scheduled' = [task_scheduled EXCEPT ![t] = "no"]
    /\ shutdown_pc' = next
    /\ UNCHANGED << configVars, lifeVars, connVars, write_connections, poolVars,
                    consumers_ready, mv_attached, shutdown_called, drop_table,
                    init_pc, stream_pc, streamLocals, envVars, readVars, obsVars,
                    pool_pc >>

\* ... and then waits until a running execution of it has returned
ShutdownAwait(task_pc, pc, next) ==
    /\ Quiet
    /\ shutdown_pc = pc
    /\ task_pc = "idle"
    /\ shutdown_pc' = next
    /\ UNCHANGED << configVars, lifeVars, connVars, write_connections, poolVars,
                    consumers_ready, mv_attached, shutdown_called, drop_table,
                    taskVars, init_pc, stream_pc, streamLocals, envVars, readVars,
                    obsVars, pool_pc >>

ShutdownDeactivateStreaming ==
    ShutdownDeactivate("stream", "deactivate_streaming", "await_streaming")

ShutdownAwaitStreaming ==
    ShutdownAwait(stream_pc, "await_streaming", "deactivate_initializer")

ShutdownDeactivateInitializer ==
    ShutdownDeactivate("init", "deactivate_initializer", "await_initializer")

ShutdownAwaitInitializer ==
    ShutdownAwait(init_pc, "await_initializer", "teardown")

\* a faulty variant of ShutdownTeardown: unsubscribes whatever drop_table is
ShutdownTeardown_always ==
    /\ Quiet
    /\ shutdown_pc = "teardown"
    /\ IF TRUE
       THEN /\ consumers' = unsubscribeLoop(consumers)
            /\ consumers_ready' = FALSE
       ELSE UNCHANGED << consumers, consumers_ready >>
    /\ consumers_connection' =
           IF consumers_connection = "null" THEN "null" ELSE "closed"
    /\ shutdown_pc' = "drain"
    /\ UNCHANGED << configVars, lifeVars, consumer_connections, write_connections,
                    num_created_consumers, semaphore, mv_attached, shutdown_called,
                    drop_table, taskVars, init_pc, stream_pc, streamLocals,
                    envVars, readVars, obsVars, pool_pc >>

\* the try block up to the drain loop: unsubscribe iff drop_table, flush and
\* disconnect the connection if there is one
ShutdownTeardown ==
    /\ Quiet
    /\ shutdown_pc = "teardown"
    /\ IF drop_table
       THEN /\ consumers' = unsubscribeLoop(consumers)
            /\ consumers_ready' = FALSE
       ELSE UNCHANGED << consumers, consumers_ready >>
    /\ consumers_connection' =
           IF consumers_connection = "null" THEN "null" ELSE "closed"
    /\ shutdown_pc' = "drain"
    /\ UNCHANGED << configVars, lifeVars, consumer_connections, write_connections,
                    num_created_consumers, semaphore, mv_attached, shutdown_called,
                    drop_table, taskVars, init_pc, stream_pc, streamLocals,
                    envVars, readVars, obsVars, pool_pc >>

\* unsubscribeConsumers() when unsubscribe() of consumer k+1 throws
unsubscribeUpTo(list, k) == [i \in 1..Len(list) |-> IF i <= k THEN FALSE ELSE list[i]]

\* `if (drop_table) unsubscribeConsumers();` returning normally
unsubscribeIfDropped ==
    IF drop_table
    THEN /\ consumers' = unsubscribeLoop(consumers)
         /\ consumers_ready' = FALSE
    ELSE UNCHANGED << consumers, consumers_ready >>

\* a faulty variant of ShutdownTeardownThrows: the exception leaves shutdown()
ShutdownTeardownThrows_escaping ==
    /\ Quiet
    /\ shutdown_pc = "teardown"
    /\ \E at \in {"unsubscribe", "flush", "disconnect"} :
         CASE at = "unsubscribe" ->
                /\ drop_table
                /\ \E k \in 0..(Len(consumers) - 1) :
                      consumers' = unsubscribeUpTo(consumers, k)
                /\ UNCHANGED << consumers_ready, consumers_connection >>
           [] at = "flush" ->
                /\ isConnected
                /\ unsubscribeIfDropped
                /\ UNCHANGED consumers_connection
           [] at = "disconnect" ->
                /\ consumers_connection # "null"
                /\ unsubscribeIfDropped
                /\ consumers_connection' \in {consumers_connection, "closed"}
    /\ shutdown_pc' = "done"
    /\ UNCHANGED << configVars, lifeVars, consumer_connections, write_connections,
                    num_created_consumers, semaphore, mv_attached, shutdown_called,
                    drop_table, taskVars, init_pc, stream_pc, streamLocals,
                    envVars, readVars, obsVars, pool_pc >>

\* the try block when unsubscribing, flushing or disconnecting throws: the
\* rest of the block, the drain loop included, is skipped and the exception
\* is caught and logged
ShutdownTeardownThrows ==
    /\ Quiet
    /\ shutdown_pc = "teardown"
    /\ \E at \in {"unsubscribe", "flush", "disconnect"} :
         CASE at = "unsubscribe" ->
                /\ drop_table
                /\ \E k \in 0..(Len(consumers) - 1) :
                      consumers' = unsubscribeUpTo(consumers, k)
                /\ UNCHANGED << consumers_ready, consumers_connection >>
           [] at = "flush" ->
                /\ isConnected
                /\ unsubscribeIfDropped
                /\ UNCHANGED consumers_connection
           [] at = "disconnect" ->
                /\ consumers_connection # "null"
                /\ unsubscribeIfDropped
                /\ consumers_connection' \in {consumers_connection, "closed"}
    /\ shutdown_pc' = "stop"
    /\ UNCHANGED << configVars, lifeVars, consumer_connections, write_connections,
                    num_created_consumers, semaphore, mv_attached, shutdown_called,
                    drop_table, taskVars, init_pc, stream_pc, streamLocals,
                    envVars, readVars, obsVars, pool_pc >>

\* a faulty variant of ShutdownDrain: the drain loop is left out
ShutdownDrain_skipped ==
    /\ Quiet
    /\ shutdown_pc = "drain"
    /\ shutdown_pc' = "stop"
    /\ UNCHANGED << configVars, lifeVars, connVars, write_connections, poolVars,
                    consumers_ready, mv_attached, shutdown_called, drop_table,
                    taskVars, init_pc, stream_pc, streamLocals, envVars, readVars,
                    obsVars, pool_pc >>

\* the drain loop: num_created_consumers times popConsumer(), each waiting
\* for a permit
ShutdownDrain ==
    /\ Quiet
    /\ shutdown_pc = "drain"
    /\ IF drained < num_created_consumers
       THEN /\ semaphore > 0
            /\ consumers' = Front(consumers)
            /\ semaphore' = semaphore - 1
            /\ drained' = drained + 1
            /\ UNCHANGED shutdown_pc
       ELSE /\ shutdown_pc' = "stop"
            /\ UNCHANGED << consumers, semaphore, drained >>
    /\ UNCHANGED << configVars, constructed, started, event_loop, connVars,
                    write_connections, num_created_consumers, consumers_ready,
                    mv_attached, shutdown_called, drop_table, taskVars, init_pc,
                    stream_pc, streamLocals, envVars, readVars, obsVars,
                    pool_pc >>

\* stopEventLoop(): stop the loop and join its thread
ShutdownStopEventLoop ==
    /\ Quiet
    /\ shutdown_pc = "stop"
    /\ event_loop' = "stopped"
    /\ shutdown_pc' = "done"
    /\ UNCHANGED << configVars, constructed, started, drained, connVars,
                    write_connections, poolVars, consumers_ready, mv_attached,
                    shutdown_called, drop_table, taskVars, init_pc, stream_pc,
                    streamLocals, envVars, readVars, obsVars, pool_pc >>

(***************************************************************************)
(* Collaborators: the catalog and the broker.                              *)
(***************************************************************************)
AttachView ==
    /\ Quiet
    /\ num_views < MaxViews
    /\ num_views' = num_views + 1
    /\ UNCHANGED << configVars, lifeVars, connVars, write_connections, poolVars,
                    consumers_ready, mv_attached, shutdown_called, drop_table,
                    taskVars, init_pc, stream_pc, streamLocals, shutdown_pc,
                    broker_up, views_resolvable, readVars, obsVars, pool_pc >>

DetachView ==
    /\ Quiet
    /\ num_views > 0
    /\ num_views' = num_views - 1
    /\ UNCHANGED << configVars, lifeVars, connVars, write_connections, poolVars,
                    consumers_ready, mv_attached, shutdown_called, drop_table,
                    taskVars, init_pc, stream_pc, streamLocals, shutdown_pc,
                    broker_up, views_resolvable, readVars, obsVars, pool_pc >>

\* a dependent view, or the target table of one, appears or disappears
ViewsChange ==
    /\ Quiet
    /\ num_views > 0
    /\ views_resolvable' = ~views_resolvable
    /\ UNCHANGED << configVars, lifeVars, connVars, write_connections, poolVars,
                    consumers_ready, mv_attached, shutdown_called, drop_table,
                    taskVars, init_pc, stream_pc, streamLocals, shutdown_pc,
                    broker_up, num_views, readVars, obsVars, pool_pc >>

BrokerChange ==
    /\ Quiet
    /\ broker_up' = ~broker_up
    /\ UNCHANGED << configVars, lifeVars, connVars, write_connections, poolVars,
                    consumers_ready, mv_attached, shutdown_called, drop_table,
                    taskVars, init_pc, stream_pc, streamLocals, shutdown_pc,
                    num_views, views_resolvable, readVars, obsVars, pool_pc >>

(***************************************************************************)
(* Specifications.                                                         *)
(***************************************************************************)
\* the steps of the engine's own threads, of the sources and sinks, and of
\* its collaborators
EngineStep ==
    \/ Constructor
    \/ Startup
    \/ InitializeStart
    \/ InitializeViews
    \/ InitializeSubscribe
    \/ StreamingStart
    \/ StreamingLoop
    \/ StreamingSourcePop
    \/ StreamingPassEnd
    \/ StreamingPost
    \/ StreamingClear
    \/ ReadSourcePop
    \/ ReadSourcePush
    \/ ReadFinish
    \/ WriteFinish
    \/ ShutdownBegin
    \/ ShutdownDeactivateStreaming
    \/ ShutdownAwaitStreaming
    \/ ShutdownDeactivateInitializer
    \/ ShutdownAwaitInitializer
    \/ ShutdownTeardown
    \/ ShutdownDrain
    \/ ShutdownStopEventLoop
    \/ AttachView
    \/ DetachView
    \/ BrokerChange

\* the engine with its callers; a returning call is taken by its caller
\* before anything else moves (every other step waits for Quiet)
Next ==
    \/ EngineStep
    \/ \E allow \in BOOLEAN : Read(allow)
    \/ \E in \in WriteInputs(EngineQueues) : Write(in[1], in[2])
    \/ SourcePopTimeout
    \/ Return

Spec == Init /\ [][Next]_vars

\* the threads of the engine: every step of a thread that is not waiting
\* is eventually taken
shutdownThread ==
    \/ ShutdownDeactivateStreaming
    \/ ShutdownAwaitStreaming
    \/ ShutdownDeactivateInitializer
    \/ ShutdownAwaitInitializer
    \/ ShutdownTeardown
    \/ ShutdownStopEventLoop

streamingThread ==
    \/ StreamingStart
    \/ StreamingLoop
    \/ StreamingPassEnd
    \/ StreamingPost
    \/ StreamingClear

initializerThread ==
    \/ InitializeStart
    \/ InitializeViews
    \/ InitializeSubscribe

readThread ==
    \/ ReadSourcePush
    \/ ReadFinish

\* fair scheduling of the threads.  A returning call is taken by its caller
\* before anything else moves, so a thread that is not waiting can step
\* again and again, and takes its step; popConsumer() in the drain loop
\* waits on the semaphore and obtains a permit that keeps being returned
Fairness ==
    /\ SF_vars(shutdownThread)
    /\ SF_vars(ShutdownDrain)
    /\ SF_vars(streamingThread)
    /\ SF_vars(initializerThread)
    /\ SF_vars(readThread)
    /\ WF_vars(Return)

\* the engine with direct reads as its only callers
NextFair ==
    \/ Constructor
    \/ Startup
    \/ initializerThread
    \/ streamingThread
    \/ StreamingSourcePop
    \/ Read(TRUE)
    \/ ReadSourcePop
    \/ readThread
    \/ ShutdownBegin
    \/ shutdownThread
    \/ ShutdownDrain
    \/ AttachView
    \/ DetachView
    \/ BrokerChange
    \/ Return

\* the engine with the largest number of consumers
InitFair == Init /\ num_consumers = MaxConsumers

SpecFair == InitFair /\ [][NextFair]_vars /\ Fairness

(***************************************************************************)
(* The consumer pool statement by statement: pushConsumer is push_back     *)
(* under consumers_mutex, then semaphore.set() before the mutex is         *)
(* released; popConsumer is the semaphore wait, then back()/pop_back()     *)
(* under consumers_mutex.                                                  *)
(***************************************************************************)
\* a faulty variant of createConsumersSkips: the counter is not tested
createConsumersSkips_never == FALSE

\* createConsumers returns at once
createConsumersSkips == num_created_consumers # 0

\* semaphore.wait(), or a tryWait(timeout) that obtains a permit, in a
\* call of popConsumer by caller c
semaphoreWait(c) ==
    /\ semaphore > 0
    /\ semaphore' = semaphore - 1
    /\ pool_pc' = [pool_pc EXCEPT !.popping[c] = @ + 1]

\* the consumers a pop can return: consumers.back(), which is undefined on
\* an empty list
popConsumerBack(list) ==
    IF list = << >> THEN BOOLEAN ELSE {popConsumerResult(list)}

\* the free list after pop_back()
popConsumerRest(list) == IF list = << >> THEN << >> ELSE Front(list)

\* Entry of initializeConsumersFunc, as InitializeStart, up to the loop of
\* createConsumers
InitializeStartPool ==
    /\ Quiet
    /\ taskRunnable("init", init_pc)
    /\ IF consumers_ready
       THEN /\ task_scheduled' = [task_scheduled EXCEPT !["init"] = "no"]
            /\ UNCHANGED << connVars, init_pc, pool_pc >>
       ELSE IF ~createConsumersConnection_ok
       THEN /\ task_scheduled' = [task_scheduled EXCEPT !["init"] = "after"]
            /\ UNCHANGED << connVars, init_pc, pool_pc >>
       ELSE /\ createConsumersConnection
            /\ task_scheduled' = [task_scheduled EXCEPT !["init"] = "no"]
            /\ IF createConsumersSkips
               THEN /\ init_pc' = "views"
                    /\ UNCHANGED pool_pc
               ELSE /\ init_pc' = "create"
                    /\ pool_pc' = [pool_pc EXCEPT !.i = 0]
    /\ UNCHANGED << configVars, lifeVars, write_connections, poolVars,
                    consumers_ready, mv_attached, shutdown_called, drop_table,
                    task_active, stream_pc, streamLocals, shutdown_pc, envVars,
                    readVars, obsVars >>

\* One iteration of the loop of createConsumers up to push_back: the loop
\* ends, or createConsumer() throws and the iteration is skipped, or the new
\* consumer is appended to the free list under consumers_mutex
CreateConsumersLoop ==
    /\ Quiet
    /\ init_pc = "create"
    /\ IF pool_pc.i >= num_consumers
       THEN /\ init_pc' = "views"
            /\ UNCHANGED << consumers, pool_pc >>
       ELSE \/ /\ pool_pc' = [pool_pc EXCEPT !.i = @ + 1]
               /\ UNCHANGED << consumers, init_pc >>
            \/ /\ pool_pc.mutex = "free"
               /\ consumers' = pushConsumer(consumers, FALSE)
               /\ pool_pc' = [pool_pc EXCEPT !.mutex = "init"]
               /\ init_pc' = "push"
    /\ UNCHANGED << configVars, lifeVars, connVars, write_connections,
                    num_created_consumers, semaphore, consumers_ready,
                    mv_attached, shutdown_called, drop_table, taskVars,
                    stream_pc, streamLocals, shutdown_pc, envVars, readVars,
                    obsVars >>

\* semaphore.set() at the end of pushConsumer, and the release of
\* consumers_mutex; set() throws, and adds no permit, when the semaphore is
\* at its maximum (createConsumers catches it and skips the iteration)
PushConsumerSet ==
    /\ Quiet
    /\ pool_pc.mutex # "free"
    /\ IF semaphore < num_consumers
       THEN /\ semaphore' = semaphore + 1
            /\ pool_pc' = [pool_pc EXCEPT !.mutex = "free"]
            /\ init_pc' = IF pool_pc.mutex = "init" THEN "count" ELSE init_pc
       ELSE /\ UNCHANGED semaphore
            /\ pool_pc' = [pool_pc EXCEPT
                             !.mutex = "free",
                             !.i = IF pool_pc.mutex = "init" THEN @ + 1 ELSE @]
            /\ init_pc' = IF pool_pc.mutex = "init" THEN "create" ELSE init_pc
    /\ UNCHANGED << configVars, lifeVars, connVars, write_connections,
                    num_created_consumers, consumers, consumers_ready,
                    mv_attached, shutdown_called, drop_table, taskVars,
                    stream_pc, streamLocals, shutdown_pc, envVars, readVars,
                    obsVars >>

\* ++num_created_consumers, and the next iteration
CreateConsumersCount ==
    /\ Quiet
    /\ init_pc = "count"
    /\ num_created_consumers' = num_created_consumers + 1
    /\ pool_pc' = [pool_pc EXCEPT !.i = @ + 1]
    /\ init_pc' = "create"
    /\ UNCHANGED << configVars, lifeVars, connVars, write_connections,
                    consumers, semaphore, consumers_ready, mv_attached,
                    shutdown_called, drop_table, taskVars, stream_pc,
                    streamLocals, shutdown_pc, envVars, readVars, obsVars >>

\* A source of the running pass is built: popConsumer(timeout) obtains a
\* permit
StreamingSourceWait ==
    /\ Quiet
    /\ stream_pc = "pass"
    /\ ~pool_pc.ending
    /\ leaseSize(stream_leased) + pool_pc.popping["stream"]
         < num_created_consumers
    /\ semaphoreWait("stream")
    /\ UNCHANGED << configVars, lifeVars, connVars, write_connections,
                    num_created_consumers, consumers, consumers_ready,
                    mv_attached, shutdown_called, drop_table, taskVars, init_pc,
                    stream_pc, streamLocals, shutdown_pc, envVars, readVars,
                    obsVars >>

\* and takes the consumer at the back of the free list
StreamingSourceTake ==
    /\ Quiet
    /\ pool_pc.popping["stream"] > 0
    /\ pool_pc.mutex = "free"
    /\ \E consumer \in popConsumerBack(consumers) :
         stream_leased' = leaseAdd(stream_leased, consumer)
    /\ consumers' = popConsumerRest(consumers)
    /\ pool_pc' = [pool_pc EXCEPT !.popping["stream"] = @ - 1]
    /\ UNCHANGED << configVars, lifeVars, connVars, write_connections,
                    num_created_consumers, semaphore, consumers_ready,
                    mv_attached, shutdown_called, drop_table, taskVars, init_pc,
                    stream_pc, consumers_queues_are_empty, stream_try, elapsed,
                    shutdown_pc, envVars, readVars, obsVars >>

\* The pipeline of the pass is destroyed: a source hands its consumer back,
\* pushConsumer up to push_back
StreamingSourcePushBack ==
    /\ Quiet
    /\ stream_pc = "pass"
    /\ pool_pc.popping["stream"] = 0
    /\ pool_pc.mutex = "free"
    /\ \E consumer \in {sub \in BOOLEAN : stream_leased[sub] > 0} :
         /\ stream_leased' = leaseRemove(stream_leased, consumer)
         /\ consumers' = pushConsumer(consumers, consumer)
    /\ pool_pc' = [pool_pc EXCEPT !.mutex = "stream", !.ending = TRUE]
    /\ UNCHANGED << configVars, lifeVars, connVars, write_connections,
                    num_created_consumers, semaphore, consumers_ready,
                    mv_attached, shutdown_called, drop_table, taskVars, init_pc,
                    stream_pc, consumers_queues_are_empty, stream_try, elapsed,
                    shutdown_pc, envVars, readVars, obsVars >>

\* The pass ends once every source has handed its consumer back
StreamingPassEndPool ==
    /\ stream_leased = NoLease
    /\ pool_pc.popping["stream"] = 0
    /\ pool_pc.mutex # "stream"
    /\ StreamingPassEnd

\* A source of a direct read is built: popConsumer(timeout) obtains a permit
ReadSourceWait ==
    /\ Quiet
    /\ reads_in_progress > 0
    /\ leaseSize(read_leased) + pool_pc.popping["read"]
         < reads_in_progress * num_created_consumers
    /\ semaphoreWait("read")
    /\ UNCHANGED << configVars, lifeVars, connVars, write_connections,
                    num_created_consumers, consumers, consumers_ready,
                    mv_attached, shutdown_called, drop_table, taskVars, init_pc,
                    stream_pc, streamLocals, shutdown_pc, envVars, readVars,
                    obsVars >>

\* and takes the consumer at the back of the free list
ReadSourceTake ==
    /\ Quiet
    /\ pool_pc.popping["read"] > 0
    /\ pool_pc.mutex = "free"
    /\ \E consumer \in popConsumerBack(consumers) :
         read_leased' = leaseAdd(read_leased, consumer)
    /\ consumers' = popConsumerRest(consumers)
    /\ pool_pc' = [pool_pc EXCEPT !.popping["read"] = @ - 1]
    /\ UNCHANGED << configVars, lifeVars, connVars, write_connections,
                    num_created_consumers, semaphore, consumers_ready,
                    mv_attached, shutdown_called, drop_table, taskVars, init_pc,
                    stream_pc, streamLocals, shutdown_pc, envVars,
                    reads_in_progress, obsVars >>

\* A source of a direct read is destroyed: pushConsumer up to push_back
ReadSourcePushBack ==
    /\ Quiet
    /\ pool_pc.mutex = "free"
    /\ \E consumer \in {sub \in BOOLEAN : read_leased[sub] > 0} :
         /\ read_leased' = leaseRemove(read_leased, consumer)
         /\ consumers' = pushConsumer(consumers, consumer)
    /\ pool_pc' = [pool_pc EXCEPT !.mutex = "read"]
    /\ UNCHANGED << configVars, lifeVars, connVars, write_connections,
                    num_created_consumers, semaphore, consumers_ready,
                    mv_attached, shutdown_called, drop_table, taskVars, init_pc,
                    stream_pc, streamLocals, shutdown_pc, envVars,
                    reads_in_progress, obsVars >>

\* A direct-read pipeline finishes once its sources are gone
ReadFinishPool ==
    /\ pool_pc.popping["read"] = 0
    /\ pool_pc.mutex # "read"
    /\ ReadFinish

\* The drain loop of shutdown(): popConsumer() waits for a permit, or the
\* loop ends
ShutdownDrainWait ==
    /\ Quiet
    /\ shutdown_pc = "drain"
    /\ pool_pc.popping["drain"] = 0
    /\ IF drained < num_created_consumers
       THEN /\ semaphoreWait("drain")
            /\ UNCHANGED shutdown_pc
       ELSE /\ shutdown_pc' = "stop"
            /\ UNCHANGED << semaphore, pool_pc >>
    /\ UNCHANGED << configVars, lifeVars, connVars, write_connections,
                    num_created_consumers, consumers, consumers_ready,
                    mv_attached, shutdown_called, drop_table, taskVars, init_pc,
                    stream_pc, streamLocals, envVars, readVars, obsVars >>

\* and takes the consumer at the back of the free list
ShutdownDrainTake ==
    /\ Quiet
    /\ pool_pc.popping["drain"] > 0
    /\ pool_pc.mutex = "free"
    /\ consumers' = popConsumerRest(consumers)
    /\ pool_pc' = [pool_pc EXCEPT !.popping["drain"] = @ - 1]
    /\ drained' = drained + 1
    /\ UNCHANGED << configVars, constructed, started, event_loop, connVars,
                    write_connections, num_created_consumers, semaphore,
                    consumers_ready, mv_attached, shutdown_called, drop_table,
                    taskVars, init_pc, stream_pc, streamLocals, shutdown_pc,
                    envVars, readVars, obsVars >>

\* the engine with the calls of pushConsumer and popConsumer interleaved
\* statement by statement
NextPool ==
    \/ Constructor
    \/ Startup
    \/ InitializeStartPool
    \/ CreateConsumersLoop
    \/ PushConsumerSet
    \/ CreateConsumersCount
    \/ InitializeViews
    \/ InitializeSubscribe
    \/ StreamingStart
    \/ StreamingLoop
    \/ StreamingSourceWait
    \/ StreamingSourceTake
    \/ StreamingSourcePushBack
    \/ StreamingPassEndPool
    \/ StreamingPost
    \/ StreamingClear
    \/ Read(TRUE)
    \/ ReadSourceWait
    \/ ReadSourceTake
    \/ ReadSourcePushBack
    \/ ReadFinishPool
    \/ SourcePopTimeout
    \/ ShutdownBegin
    \/ ShutdownDeactivateStreaming
    \/ ShutdownAwaitStreaming
    \/ ShutdownDeactivateInitializer
    \/ ShutdownAwaitInitializer
    \/ ShutdownTeardown
    \/ ShutdownDrainWait
    \/ ShutdownDrainTake
    \/ ShutdownStopEventLoop
    \/ AttachView
    \/ DetachView
    \/ BrokerChange
    \/ Return

SpecPool == Init /\ [][NextPool]_vars

\* the engine with a catalog in which dependent views may fail to resolve
NextViews ==
    \/ Constructor
    \/ Startup
    \/ initializerThread
    \/ streamingThread
    \/ StreamingSourcePop
    \/ ShutdownBegin
    \/ shutdownThread
    \/ ShutdownDrain
    \/ AttachView
    \/ DetachView
    \/ ViewsChange
    \/ BrokerChange
    \/ Return

SpecViews == Init /\ [][NextViews]_vars

\* the engine and its shutdown when the calls of shutdown's try block can throw
NextShutdownThrows ==
    \/ Constructor
    \/ Startup
    \/ initializerThread
    \/ streamingThread
    \/ StreamingSourcePop
    \/ ShutdownBegin
    \/ shutdownThread
    \/ ShutdownDrain
    \/ ShutdownTeardownThrows
    \/ AttachView
    \/ DetachView
    \/ BrokerChange
    \/ Return

SpecShutdownThrows == Init /\ [][NextShutdownThrows]_vars

\* the engine as a non-strict construction leaves it when the broker is
\* unreachable: no connection, the event loop running, both tasks deactivated
InitDegraded ==
    /\ num_consumers = MaxConsumers
    /\ subjects = parseList(<< "t" >>, ",")
    /\ constructed = "yes"
    /\ event_loop = "running"
    /\ consumers_connection = "null"
    /\ consumer_connections = 0
    /\ broker_up = FALSE
    /\ InitMembers

\* the tasks and the collaborators after startup(), with no external call
NextDegraded ==
    \/ Startup
    \/ initializerThread
    \/ streamingThread
    \/ StreamingSourcePop
    \/ AttachView
    \/ DetachView
    \/ BrokerChange

\* subscribeConsumers() returns true
subscribeSucceeds == InitializeSubscribe /\ consumers_ready'

\* fair scheduling of the two tasks, and a subscribe() that does not throw
\* for ever
SpecDegraded ==
    /\ InitDegraded
    /\ [][NextDegraded]_vars
    /\ SF_vars(initializerThread)
    /\ SF_vars(streamingThread)
    /\ SF_vars(subscribeSucceeds)

\* table creation with every combination of settings
CreateTables ==
    /\ constructed = "no"
    /\ \E settings \in Settings, throw_on_startup_failure \in BOOLEAN :
           CreateTable(settings, throw_on_startup_failure)

NextCreate ==
    \/ CreateTables
    \/ BrokerChange
    \/ Return

SpecCreate == Init /\ [][NextCreate]_vars

\* calls of write() and of the matcher on every configuration of subjects
NextWrite ==
    \/ \E in \in WriteInputs(Candidates) : Write(in[1], in[2])
    \/ \E subject \in Candidates : Match(subject)
    \/ WriteFinish
    \/ Return

SpecWrite == InitWrite /\ [][NextWrite]_vars

\* the matcher on every configuration of subjects, alone and with one more
\* declared subject
NextMatch ==
    \/ \E in \in LawInputs : MatchLaw(in[1], in[2])
    \/ Return

\* the matcher makes no connection: the broker's state is left out
InitMatch == InitWrite /\ broker_up

SpecMatch == InitMatch /\ [][NextMatch]_vars

(***************************************************************************)
(* Properties.                                                             *)
(***************************************************************************)
Range(s) == {s[i] : i \in 1..Len(s)}

\* ---- read() against mv_attached

C2_NoReadDuringStreamingPass ==
    ~(reads_in_progress > 0 /\ stream_pc = "pass")

\* ---- the consumer connection

\* C3: the engine holds at most one consumer connection: consumers_connection
\* is assigned at most once over the engine's life, and it is set exactly when
\* it has been assigned.
C3_AtMostOneConsumerConnection ==
    /\ consumer_connections <= 1
    /\ consumers_connection # "null" <=> consumer_connections = 1

\* after constructor, initializer ticks and shutdown, a write() succeeds on
\* its own connection while the one consumer connection is closed
C3_Witness ==
    /\ consumers_connection = "closed"
    /\ consumer_connections = 1
    /\ num_created_consumers > 0
    /\ shutdown_pc = "done"
    /\ last_write.result = "OK"

\* ---- subscriptions

\* every created consumer, in the free list or leased to a source, is subscribed
allSubscribed ==
    /\ \A i \in 1..Len(consumers) : consumers[i]
    /\ read_leased[FALSE] = 0
    /\ stream_leased[FALSE] = 0
    /\ Len(consumers) + leaseSize(read_leased) + leaseSize(stream_leased)
           = num_created_consumers

\* no created consumer is subscribed
noneSubscribed ==
    /\ \A i \in 1..Len(consumers) : ~consumers[i]
    /\ read_leased[TRUE] = 0
    /\ stream_leased[TRUE] = 0

\* the step in which subscribeConsumers() returns true
subscribeConsumersReturnsTrue ==
    init_pc = "subscribe" /\ init_pc' = "idle" /\ consumers_ready'

\* the steps in which unsubscribeConsumers() is called and returns
unsubscribeConsumersReturns ==
    \/ /\ stream_pc = "post" /\ stream_pc' # "post"
       /\ ~shutdown_called /\ num_views = 0 /\ consumers_ready
    \/ /\ shutdown_pc = "teardown" /\ shutdown_pc' = "drain"
       /\ drop_table

\* C4: after subscribeConsumers() returns true every created consumer (in the
\* free list or leased to a source) is subscribed; after unsubscribeConsumers()
\* returns no created consumer is subscribed.
C4_SubscriptionsFollowTheCalls ==
    [][ /\ subscribeConsumersReturnsTrue => allSubscribed'
        /\ unsubscribeConsumersReturns => noneSubscribed' ]_vars

\* ---- write()

\* the insert queue of the write() call returning
lastQueue == insertQueue(last_write.changed, last_write.value)

\* the call returning has a target subject: the insert queue, or the only
\* declared subject
hasTarget == last_write # NoWrite /\ (lastQueue # << >> \/ Len(subjects) = 1)

target == IF lastQueue # << >> THEN lastQueue ELSE subjects[1]

containsStar(subject) == \E i \in 1..Len(subject) : subject[i] = "*"

endsInGreater(subject) == subject # << >> /\ subject[Len(subject)] = ">"

madeConnection == "createConnection" \in Range(last_write.steps)

madeProducer == "NATSProducer" \in Range(last_write.steps)

\* C5: write() creates a publisher only for a target subject that
\* isSubjectInSubscriptions accepts; for every wildcard-free target subject
\* that the matcher does not accept, write() fails with BAD_ARGUMENTS and
\* creates no connection and no producer.
C5_PublisherOnlyForAcceptedSubject ==
    /\ (last_write # NoWrite /\ madeProducer) =>
           isSubjectInSubscriptions(subjects, last_write.subject)
    /\ ( /\ hasTarget
         /\ ~containsStar(target) /\ ~endsInGreater(target)
         /\ ~isSubjectInSubscriptions(subjects, target) ) =>
           /\ last_write.result = "BAD_ARGUMENTS"
           /\ ~madeConnection /\ ~madeProducer

\* a wildcard-free insert queue outside the declared subjects is refused after
\* the matcher was consulted
C5_WitnessRefused ==
    /\ hasTarget
    /\ target = << "a", ".", "a" >>
    /\ subjects = << << "a", ".", "*", ".", "c" >> >>
    /\ last_write.result = "BAD_ARGUMENTS"
    /\ last_write.steps = << "wildcard check", "isSubjectInSubscriptions" >>

\* C6: write() rejects with BAD_ARGUMENTS every target subject that contains
\* '*' or ends in '>', the engine's only declared subject as default target
\* included, before the matcher is consulted and before any connection is
\* created.
C6_WildcardTargetRejectedFirst ==
    (hasTarget /\ (containsStar(target) \/ endsInGreater(target))) =>
        /\ last_write.result = "BAD_ARGUMENTS"
        /\ last_write.steps = << "wildcard check" >>

\* the only declared subject a.*.c, used as the default target, is refused
C6_WitnessDefaultTarget ==
    /\ last_write # NoWrite
    /\ lastQueue = << >>
    /\ subjects = << << "a", ".", "*", ".", "c" >> >>
    /\ last_write.result = "BAD_ARGUMENTS"
    /\ last_write.steps = << "wildcard check" >>

\* C7: with the insert queue unset or empty, write() targets the engine's only
\* subject if there is exactly one, and fails with
\* NUMBER_OF_ARGUMENTS_DOESNT_MATCH, before any check and without a
\* connection, if the engine has any other number of subjects.
C7_DefaultTargetOrArgCount ==
    (last_write # NoWrite /\ lastQueue = << >>) =>
        IF Len(subjects) = 1
        THEN last_write.subject = subjects[1]
        ELSE /\ last_write.result = "NUMBER_OF_ARGUMENTS_DOESNT_MATCH"
             /\ last_write.steps = << >>

\* ---- the matcher

\* the dot-separated tokens of a subject
tokens(subject) == parseList(subject, ".")

\* a literal candidate: it has tokens, none of them empty or a wildcard
isLiteral(subject) ==
    /\ tokens(subject) # << >>
    /\ \A i \in 1..Len(tokens(subject)) :
           tokens(subject)[i] \notin { << >>, << "*" >>, << ">" >> }

lastTokenIsGreater(d) ==
    tokens(d) # << >> /\ tokens(d)[Len(tokens(d))] = << ">" >>

\* each of the first n tokens of d is '*' or the token of S at its position
firstTokensAgree(d, S, n) ==
    \A i \in 1..n : tokens(d)[i] = << "*" >> \/ tokens(d)[i] = tokens(S)[i]

\* the matcher returns for a single declared subject
singleSubjectMatch == cand # NoCand /\ Len(subjects) = 1

\* C8: for a declared subject d whose last token is '>' (d = ">" alone
\* included) and a literal candidate S, the match is true iff S has at least
\* |d|-1 tokens and each of the first |d|-1 tokens of d is '*' or equals the
\* token of S at the same position.
C8_TrailingGreaterMatch ==
    (singleSubjectMatch /\ isLiteral(cand) /\ lastTokenIsGreater(subjects[1])) =>
        (match_result <=>
            /\ Len(tokens(cand)) >= Len(tokens(subjects[1])) - 1
            /\ firstTokensAgree(subjects[1], cand, Len(tokens(subjects[1])) - 1))

\* C9: for a declared subject d whose last token is not '>' and a candidate S
\* (literal or not), the match is true iff S and d have the same number of
\* tokens and every token of d is '*' or equals the token of S at the same
\* position.
C9_ExactLengthMatch ==
    (singleSubjectMatch /\ ~lastTokenIsGreater(subjects[1])) =>
        (match_result <=>
            /\ Len(tokens(cand)) = Len(tokens(subjects[1]))
            /\ firstTokensAgree(subjects[1], cand, Len(tokens(subjects[1]))))

\* with the subject t.* the candidate t.a.b is found not to match
C9_WitnessLonger ==
    /\ subjects = << << "t", ".", "*" >> >>
    /\ cand = << "t", ".", "a", ".", "b" >>
    /\ ~match_result

\* C10: with the declared subjects a.*.c and x.> the matcher accepts a.b.c and
\* x.y.z.w and rejects a.c and x.
C10_ExampleSubjects ==
    (subjects = << << "a", ".", "*", ".", "c" >>, << "x", ".", ">" >> >>) =>
        /\ cand \in { << "a", ".", "b", ".", "c" >>,
                      << "x", ".", "y", ".", "z", ".", "w" >> } => match_result
        /\ cand \in { << "a", ".", "c" >>, << "x" >> } => ~match_result

\* ---- laws of the matcher

\* C11 as stated: for every subject S, every declared set D and every subject
\* d with matches(S, {d}) true, matches(S, D) = matches(S, D with d added).
C11_AddingAMatchingSubjectChangesNothing ==
    (cand # NoCand /\ isLiteral(cand) /\ match_law.single) =>
        match_result = match_law.extended

\* C11 amended: for every subject S, every declared set D and every subject d
\* with matches(S, {d}) true, matches(S, D with d added) is true; it equals
\* matches(S, D) exactly when D accepts S already.
C11_AddingAMatchingSubjectAccepts ==
    (cand # NoCand /\ match_law.single) =>
        /\ match_law.extended
        /\ (match_result = match_law.extended) <=> match_result

\* the subject a is accepted by a.> alone and by the declared subject * with
\* a.> added
C11_Witness ==
    /\ cand = << "a" >>
    /\ subjects = << << "*" >> >>
    /\ match_law.subject = << "a", ".", ">" >>
    /\ match_law.single
    /\ match_law.extended
    /\ match_result

\* ---- shutdown

\* the steps of shutdown() in the order of the code, as pairs of positions
ShutdownOrder ==
    { << "idle", "deactivate_streaming" >>,
      << "deactivate_streaming", "await_streaming" >>,
      << "await_streaming", "deactivate_initializer" >>,
      << "deactivate_initializer", "await_initializer" >>,
      << "await_initializer", "teardown" >>,
      << "teardown", "drain" >>,
      << "drain", "stop" >>,
      << "stop", "done" >> }

C13_ShutdownReturns ==
    shutdown_called ~>
        (shutdown_pc = "done" /\ event_loop = "stopped"
            /\ drained = num_created_consumers)

\* shutdown() has deactivated the streaming task and waits for a running
\* streaming pass whose sources hold a consumer, while a source of a direct
\* read holds another
C13_Witness ==
    /\ shutdown_pc = "await_streaming"
    /\ stream_pc = "pass"
    /\ leaseSize(stream_leased) > 0
    /\ leaseSize(read_leased) > 0

\* C14: once shutdown() has deactivated the streaming task and the
\* initializer task, neither task is active, scheduled or executing again.
C14_ShutdownIsTerminal ==
    shutdown_pc \in {"teardown", "drain", "stop", "done"} =>
        /\ \A t \in Tasks : ~task_active[t] /\ task_scheduled[t] = "no"
        /\ init_pc = "idle"
        /\ stream_pc = "idle"

\* ---- the two background tasks

\* C15: at every instant at most one of initializeConsumersFunc and
\* streamingToViewsFunc is executing.
C15_AtMostOneTaskExecuting ==
    init_pc = "idle" \/ stream_pc = "idle"

\* the streaming task is activated and armed by this step
streamingActivated ==
    /\ task_active' = [task_active EXCEPT !["stream"] = TRUE]
    /\ task_scheduled' = [task_scheduled EXCEPT !["stream"] = "now"]

\* the initializer calls scheduleAfter(RESCHEDULE_MS) on itself and leaves
\* the streaming task alone
initializerBacksOff ==
    /\ task_active' = task_active
    /\ task_scheduled' = schedule(task_scheduled, task_active, "init", "after")
    /\ consumers_ready' = consumers_ready

\* C16: an initializer tick activates and schedules the streaming task only
\* at its end, after the connection exists, consumer creation ran, the
\* catalog reported a dependent view, mv_attached was set and
\* subscribeConsumers() returned true; a tick that ends in any other way
\* calls scheduleAfter(RESCHEDULE_MS) on itself and does not activate the
\* streaming task; a tick that finds consumers_ready true changes nothing
\* and schedules nothing.
C16_InitializerTickOutcomes ==
    [][ /\ InitializeStart =>
              /\ task_active' = task_active
              /\ task_scheduled'["stream"] = task_scheduled["stream"]
              /\ consumers_ready =>
                     /\ task_scheduled'["init"] = "no"
                     /\ init_pc' = "idle"
                     /\ UNCHANGED << connVars, poolVars, consumers_ready,
                                     mv_attached >>
              /\ (~consumers_ready /\ init_pc' = "idle") =>
                     /\ initializerBacksOff
                     /\ UNCHANGED << consumers_connection, poolVars >>
              /\ init_pc' = "views" =>
                     /\ consumers_connection' = "open"
                     /\ num_consumers > 0 /\ num_created_consumers = 0 =>
                            num_created_consumers' \in 0..num_consumers
        /\ InitializeViews =>
              /\ consumers_connection = "open"
              /\ IF num_views = 0
                 THEN /\ init_pc' = "idle"
                      /\ initializerBacksOff
                      /\ mv_attached' = mv_attached
                 ELSE /\ init_pc' = "subscribe"
                      /\ mv_attached'
                      /\ UNCHANGED << task_active, task_scheduled >>
        /\ InitializeSubscribe =>
              /\ consumers_connection = "open"
              /\ init_pc' = "idle"
              /\ ~consumers_ready
              /\ IF consumers_ready'
                 THEN /\ streamingActivated
                      /\ Len(consumers') = num_created_consumers
                      /\ \A i \in 1..Len(consumers') : consumers'[i]
                 ELSE initializerBacksOff
        /\ (task_active'["stream"] /\ ~task_active["stream"]) =>
              /\ init_pc = "subscribe"
              /\ init_pc' = "idle"
              /\ consumers_ready'
      ]_vars

\* a tick has ended with every consumer subscribed and the streaming task
\* activated and scheduled
C16_Witness ==
    /\ init_pc = "idle"
    /\ consumers_ready
    /\ mv_attached
    /\ num_created_consumers = 2
    /\ task_active["stream"]
    /\ task_scheduled["stream"] = "now"
    /\ task_scheduled["init"] = "no"
    /\ ~shutdown_called

\* C17: consumers are subscribed, and the streaming task is activated, only
\* in states where all configured consumers have been created.
C17_SubscribedOnlyWithAllConsumers ==
    (consumers_ready \/ task_active["stream"] \/ ~noneSubscribed) =>
        num_created_consumers = num_consumers

\* C18: a streaming-task activation that finds the consumer connection
\* missing or not connected (shutdown not called), or whose pass fails with an
\* exception, schedules its next activation with the RESCHEDULE_MS backoff,
\* never immediately, and leaves consumers_ready unchanged.
C18_BackoffWithoutConnectionOrAfterException ==
    [][ (StreamingPost /\ ~shutdown_called /\ stream_try \in {"skipped", "threw"}) =>
            /\ task_scheduled'["stream"] = "after"
            /\ consumers_ready' = consumers_ready
      ]_vars

\* C19: a streaming-task activation with a healthy connection and shutdown
\* not called that observes zero dependent views, having built no pipeline,
\* unsubscribes the consumers if consumers_ready is true, schedules the
\* initializer task, does not reschedule itself and sets mv_attached to false.
C19_NoViewsGoesIdle ==
    [][ /\ (StreamingPost /\ ~shutdown_called /\ stream_try = "entered"
                /\ num_views = 0) =>
               /\ ~consumers_ready'
               /\ consumers_ready => \A i \in 1..Len(consumers') : ~consumers'[i]
               /\ task_scheduled' = schedule(task_scheduled, task_active, "init", "now")
               /\ stream_pc' = "clear"
        /\ StreamingClear => ~mv_attached' /\ stream_pc' = "idle"
      ]_vars

\* the engine is idle: nothing subscribed, no view attached, the initializer
\* task armed and the streaming task not rescheduled
Idle ==
    /\ ~consumers_ready
    /\ ~mv_attached
    /\ task_scheduled["init"] # "no" \/ init_pc # "idle"
    /\ task_scheduled["stream"] = "no"

\* C20: if from some state on the engine, with all its consumers created,
\* the streaming task activated and shutdown not called, has zero dependent
\* views for good, then whatever the connection state it reaches Idle, again
\* and again.
C20_IdleSettling ==
    <>[](task_active["stream"] /\ ~shutdown_called /\ num_views = 0
            /\ num_created_consumers = num_consumers)
        => []<>Idle

\* ---- recovery and rejection

readReturns == last_read = NoRead /\ last_read' # NoRead

\* the first of the four rejections of read() that applies, in the order of
\* the checks
firstRejection(allow) ==
    IF consumers_connection = "null" \/ num_created_consumers = 0
    THEN "CANNOT_CONNECT_NATS"
    ELSE IF ~allow THEN "QUERY_NOT_ALLOWED"
    ELSE IF mv_attached THEN "QUERY_NOT_ALLOWED"
    ELSE IF ~isConnected THEN "CANNOT_CONNECT_NATS"
    ELSE "none"

\* C22 as stated: read() fails with CANNOT_CONNECT_NATS without a connection
\* or a created consumer and with a connection that is not connected, and
\* with QUERY_NOT_ALLOWED when direct select is disabled and when mv_attached
\* is true.
C22_EachCaseHasItsError ==
    last_read # NoRead =>
        /\ (consumers_connection = "null" \/ num_created_consumers = 0) =>
               last_read.result = "CANNOT_CONNECT_NATS"
        /\ ~last_read.allow => last_read.result = "QUERY_NOT_ALLOWED"
        /\ mv_attached => last_read.result = "QUERY_NOT_ALLOWED"
        /\ (consumers_connection # "null" /\ ~isConnected) =>
               last_read.result = "CANNOT_CONNECT_NATS"

\* C22 amended: read() is rejected, adding no pipeline and leasing no
\* consumer, exactly when one of the four cases applies, with the error of
\* the first case that applies in the order of the checks; in every other
\* state it adds one pipeline of num_created_consumers sources.
C22_FirstCaseDecidesTheError ==
    [][ readReturns =>
          /\ UNCHANGED << connVars, poolVars, read_leased, mv_attached,
                          consumers_ready >>
          /\ IF firstRejection(last_read'.allow) # "none"
             THEN /\ last_read'.result = firstRejection(last_read'.allow)
                  /\ reads_in_progress' = reads_in_progress
             ELSE /\ last_read'.result = "ADMITTED"
                  /\ reads_in_progress' = reads_in_progress + 1
                  /\ num_created_consumers > 0
      ]_vars

\* a read() with direct select enabled and no view attached was refused
\* because the connection is not connected
C22_Witness ==
    /\ last_read.allow
    /\ last_read.result = "CANNOT_CONNECT_NATS"
    /\ consumers_connection = "open"
    /\ ~broker_up
    /\ num_created_consumers > 0
    /\ ~mv_attached
    /\ reads_in_progress = 0

\* C23: if creating the consumer connection fails during construction, the
\* error propagates to the creator iff throw_on_startup_failure (mode <=
\* CREATE), with the event loop stopped and its thread joined; otherwise
\* construction completes with no connection and both tasks deactivated, and
\* after startup() every initializer tick tries the connection again.
C23_ConstructionFailure ==
    [][ /\ Constructor =>
              LET strict == last_construct'.throw_on_startup_failure
                  threw == last_construct'.result = "CANNOT_CONNECT_NATS"
              IN last_construct'.result # "BAD_ARGUMENTS" =>
                 /\ threw <=> (~broker_up /\ strict)
                 /\ threw => /\ constructed' = "failed"
                             /\ event_loop' = "stopped"
                             /\ consumers_connection' = "null"
                 /\ ~threw => /\ last_construct'.result = "constructed"
                              /\ constructed' = "yes"
                              /\ event_loop' = "running"
                              /\ consumers_connection' =
                                     IF broker_up THEN "open" ELSE "null"
                              /\ \A t \in Tasks :
                                     ~task_active'[t] /\ task_scheduled'[t] = "no"
        /\ (InitializeStart /\ consumers_connection = "null") =>
              IF broker_up
              THEN consumers_connection' = "open"
              ELSE /\ consumers_connection' = "null"
                   /\ task_scheduled'["init"] = "after"
                   /\ init_pc' = "idle"
      ]_vars

\* a non-strict construction has returned without a connection, and after
\* startup() an initializer tick has failed to connect and rescheduled itself
C23_Witness ==
    /\ constructed = "yes"
    /\ started
    /\ consumers_connection = "null"
    /\ event_loop = "running"
    /\ task_scheduled["init"] = "after"
    /\ ~task_active["stream"]

\* C24: table creation fails, leaving no engine instance and no running
\* event-loop thread, when neither nats_url nor nats_server_list is set, when
\* nats_format is not set, when nats_subjects is not set, or when
\* nats_handle_error_mode is DEAD_LETTER_QUEUE.
C24_CreationFailsOnBadSettings ==
    last_construct # NoConstruct =>
        LET settings == last_construct.settings
        IN (\/ ~settings.nats_url /\ ~settings.nats_server_list
            \/ ~settings.nats_format
            \/ ~settings.nats_subjects
            \/ settings.nats_handle_error_mode = "DEAD_LETTER_QUEUE") =>
               /\ last_construct.result \in
                      {"BAD_ARGUMENTS", "NUMBER_OF_ARGUMENTS_DOESNT_MATCH"}
               /\ constructed = "failed"
               /\ event_loop = "none"
               /\ consumers_connection = "null"

\* the settings passed the creator function with DEAD_LETTER_QUEUE, and the
\* constructor threw before it started the event-loop thread
C24_Witness ==
    /\ last_construct.result = "BAD_ARGUMENTS"
    /\ last_construct.settings = givenSettings("DEAD_LETTER_QUEUE")
    /\ constructed = "failed"
    /\ event_loop = "none"

createConnectionCalls(steps) ==
    Cardinality({i \in DOMAIN steps : steps[i] = "createConnection"})

C26_WriteOwnsItsConnection ==
    [][/\ last_write' # last_write /\ last_write' # NoWrite =>
            LET passed == "isSubjectInSubscriptions" \in Range(last_write'.steps)
                          /\ last_write'.result \in {"OK", "CANNOT_CONNECT_NATS"}
            IN /\ createConnectionCalls(last_write'.steps) =
                      IF passed THEN 1 ELSE 0
               /\ write_connections' =
                      IF last_write'.result = "OK"
                      THEN write_connections + 1 ELSE write_connections
               /\ last_write'.result = "OK" => passed
               /\ UNCHANGED << connVars, poolVars, mv_attached, consumers_ready >>
       /\ last_read' # last_read /\ last_read' # NoRead =>
            UNCHANGED << connVars, write_connections >>]_vars

\* a write() has succeeded on a streaming engine whose consumer connection is
\* open, with the producer connection alive beside it
C26_Witness ==
    /\ last_write.result = "OK"
    /\ consumers_connection = "open"
    /\ consumer_connections = 1
    /\ consumers_ready
    /\ write_connections = 1

\* C27: each consumer's queue capacity equals max(100000, B), where B is
\* nats_max_block_size when that setting is explicitly set and the integer
\* quotient max_insert_block_size / N otherwise, for every 64-bit value of B.
C27_QueueCapacity ==
    last_construct.result = "constructed" =>
        LET settings == last_construct.settings
            B == IF settings.nats_max_block_size.changed
                 THEN settings.nats_max_block_size.value
                 ELSE divUInt64(settings.max_insert_block_size, num_consumers)
        IN last_construct.queue_size =
               IF lessUInt64(B, toUInt64(100000)) THEN toUInt64(100000) ELSE B

\* C28: popConsumer with zero timeout (the drain loop of shutdown) blocks
\* until a free consumer is available and never returns null; popConsumer with
\* a positive timeout returns null, leaving the free list unchanged, if no
\* consumer becomes free in time; every successful pop returns the most
\* recently pushed consumer still in the free list, and no consumer is leased
\* to two holders at the same time: the free list, the sources and the
\* drained consumers partition the created consumers.
backOf(list) == list[Len(list)]

C28_PopConsumer ==
    /\ [][/\ drained' # drained =>
               /\ semaphore > 0
               /\ Len(consumers) > 0
               /\ last_pop' = NoPop
          /\ (last_pop' = "nullptr" /\ last_pop = NoPop) =>
               /\ semaphore = 0
               /\ UNCHANGED << poolVars, stream_leased, read_leased, drained >>
          /\ Len(consumers') < Len(consumers) =>
               /\ consumers' = Front(consumers)
               /\ semaphore' = semaphore - 1
               /\ \/ /\ drained' = drained + 1
                     /\ UNCHANGED << stream_leased, read_leased >>
                  \/ /\ stream_leased' = leaseAdd(stream_leased, backOf(consumers))
                     /\ UNCHANGED << read_leased, drained >>
                  \/ /\ read_leased' = leaseAdd(read_leased, backOf(consumers))
                     /\ UNCHANGED << stream_leased, drained >>]_vars
    /\ []((shutdown_pc = "drain" /\ drained < num_created_consumers
              /\ semaphore = 0) => ~ENABLED ShutdownDrain)
    /\ [](/\ semaphore = Len(consumers)
          /\ Len(consumers) + leaseSize(stream_leased) + leaseSize(read_leased)
                 + drained = num_created_consumers)

\* every consumer is leased to a source, and the popConsumer(timeout) of one
\* more source has returned null
C28_Witness ==
    /\ last_pop = "nullptr"
    /\ num_created_consumers = MaxConsumers
    /\ consumers = << >>
    /\ leaseSize(stream_leased) + leaseSize(read_leased) = num_created_consumers

\* C29: in every reachable state in which consumers_ready is true, the
\* engine's most recent observation of the consumer connection found it
\* connected.  Checked at the observation streamingToViewsFunc makes on entry:
\* when its isConnected() check of an existing connection fails, that is the
\* most recent observation in the state the step leads to, so consumers_ready
\* has to be false there.
C29_ReadyOnlyWhileSeenConnected ==
    [][(stream_pc = "idle" /\ stream_try' = "skipped"
            /\ consumers_connection # "null") => ~consumers_ready']_vars

\* C30: after a streamToViews pass, with at least one dependent view attached
\* when the activation ends: if the pass returned true (the connection is
\* down or every source reports an empty queue) the streaming task's next
\* activation is scheduled after RESCHEDULE_MS; if some queue is non-empty the
\* task is scheduled at once (the claim as stated, for the end of the
\* activation).
afterPass == stream_try = "passed"

postReturns == stream_pc = "post" /\ stream_pc' # "post"

subscribeConsumersReturns == init_pc = "subscribe" /\ init_pc' = "idle"

someUnsubscribed ==
    /\ Len(consumers') = Len(consumers)
    /\ \E i \in DOMAIN consumers : consumers[i] /\ ~consumers'[i]

C31_SubscribeAllOrNothing ==
    [][/\ subscribeConsumersReturns =>
            \E num_initialized \in 0..Len(consumers) :
               /\ consumers' = subscribeLoop(consumers, num_initialized)
               /\ \A i \in DOMAIN consumers : consumers[i] => consumers'[i]
               /\ IF num_initialized = num_created_consumers
                  THEN /\ consumers_ready'
                       /\ task_active'["stream"]
                       /\ task_scheduled'["stream"] = "now"
                  ELSE /\ UNCHANGED << consumers_ready, task_active >>
                       /\ task_scheduled' =
                              schedule(task_scheduled, task_active, "init", "after")
       /\ someUnsubscribed =>
            /\ ~consumers_ready'
            /\ \A i \in DOMAIN consumers' : ~consumers'[i]]_vars

\* a subscribe() failed after the first consumer was subscribed: the free
\* list is subscribed in part, consumers_ready is false and the initializer
\* has backed off
C31_Witness ==
    /\ init_pc = "idle"
    /\ task_scheduled["init"] = "after"
    /\ ~consumers_ready
    /\ mv_attached
    /\ Len(consumers) = num_created_consumers
    /\ \E i, j \in DOMAIN consumers : consumers[i] /\ ~consumers[j]

\* C32: num_created_consumers equals the number of consumers created and
\* pushed (those of the free list, of the sources and of the drain loop), never
\* decreases and never exceeds num_consumers; createConsumers() pushes and
\* counts the consumers whose creation succeeded, skipping the others; once
\* num_created_consumers is non-zero nothing is created any more; and the free
\* list never holds more than num_created_consumers consumers.
consumersInExistence ==
    Len(consumers) + leaseSize(stream_leased) + leaseSize(read_leased) + drained

passStarts == stream_pc = "loop" /\ stream_pc' = "pass"

passEnds == stream_pc = "pass" /\ stream_pc' # "pass"

C33_CapEndsLoopAndReschedulesAtOnce ==
    [][/\ (passStarts /\ afterPass) => elapsed <= MAX_THREAD_WORK_DURATION_MS
       /\ (passEnds /\ elapsed' > MAX_THREAD_WORK_DURATION_MS) => stream_pc' = "post"
       /\ (postReturns /\ elapsed > MAX_THREAD_WORK_DURATION_MS) =>
              task_scheduled'["stream"] = "now"]_vars

\* C33, as the code has it: another pass starts only if the time elapsed at
\* the end of the previous pass was at most the cap, and a pass that ends
\* beyond the cap ends the loop; the activation then reschedules the task
\* immediately if the pass reported a non-empty queue (or threw), after
\* RESCHEDULE_MS if it returned true and a view is attached, and not at all
\* if shutdown() has been called.
C33_CapEndsLoop ==
    [][/\ (passStarts /\ afterPass) => elapsed <= MAX_THREAD_WORK_DURATION_MS
       /\ (passEnds /\ elapsed' > MAX_THREAD_WORK_DURATION_MS) => stream_pc' = "post"
       /\ (postReturns /\ elapsed > MAX_THREAD_WORK_DURATION_MS) =>
              IF shutdown_called
              THEN UNCHANGED task_scheduled
              ELSE task_scheduled'["stream"] =
                       IF ~consumers_queues_are_empty THEN "now"
                       ELSE IF num_views # 0 THEN "after"
                       ELSE task_scheduled["stream"]]_vars

\* a pass that reported a non-empty queue has ended beyond the cap, and the
\* activation is about to reschedule the task
C33_Witness ==
    /\ stream_pc = "post"
    /\ afterPass
    /\ elapsed > MAX_THREAD_WORK_DURATION_MS
    /\ ~consumers_queues_are_empty
    /\ ~shutdown_called
    /\ num_views # 0

\* C34: if unsubscribing, flushing or disconnecting throws inside shutdown(),
\* the failure is caught: shutdown() goes on to stop the event loop and join
\* its thread, which nothing prevents, and has done so when it returns.
tryBlockThrows == shutdown_pc = "teardown" /\ shutdown_pc' \notin {"teardown", "drain"}

C34_ShutdownCatches ==
    /\ [][tryBlockThrows => shutdown_pc' = "stop" /\ UNCHANGED event_loop]_vars
    /\ []((shutdown_pc = "stop" /\ Quiet) => ENABLED ShutdownStopEventLoop)
    /\ [](shutdown_pc = "done" => event_loop = "stopped")

\* shutdown() has returned with the event loop stopped after flush or
\* disconnect threw: the drain loop was skipped and the consumers are still
\* in the free list
C34_Witness ==
    /\ shutdown_pc = "done"
    /\ event_loop = "stopped"
    /\ drained = 0
    /\ num_created_consumers > 0
    /\ Len(consumers) = num_created_consumers

\* C35: if at least one dependent view exists but some dependent view cannot
\* be resolved, a streaming activation builds no pipeline, does not
\* unsubscribe consumers or clear mv_attached, and reschedules itself after
\* RESCHEDULE_MS.  Checked where an activation that built no pipeline and was
\* not stopped by shutdown() returns.
C35_UnresolvedViewsBackOff ==
    [][(postReturns /\ ~shutdown_called /\ stream_try \in {"skipped", "entered"}
           /\ num_views # 0 /\ ~views_resolvable) =>
          /\ task_scheduled'["stream"] = "after"
          /\ stream_pc' = "idle"
          /\ UNCHANGED << consumers, consumers_ready, mv_attached >>]_vars

\* C36: in every reachable state, under all interleavings of the initializer
\* task, the streaming task and shutdown, consumers_ready implies mv_attached.
C36_ReadyImpliesAttached == consumers_ready => mv_attached

\* C37: if from some point on the catalog reports zero dependent views for
\* good and shutdown is not called, then mv_attached eventually becomes false
\* and stays false.
C37_DetachedEventually ==
    <>[](started /\ num_views = 0 /\ ~shutdown_called) => <>[](~mv_attached)

\* C38: a read() that passes its rejection checks builds at least one source
\* (num_created_consumers >= 1 at pipe construction, and as long as the
\* pipeline runs), so the empty-source fallback of read() is never taken.
C38_NoEmptySource ==
    /\ last_read.step # "EmptySource"
    /\ last_read.result = "ADMITTED" =>
          /\ last_read.sources >= 1
          /\ last_read.sources = num_created_consumers
          /\ last_read.step = "ReadFromStorageStep"
    /\ reads_in_progress > 0 => num_created_consumers >= 1

\* a read() has been admitted on an engine with all its consumers created
C38_Witness ==
    /\ last_read.result = "ADMITTED"
    /\ last_read.step = "ReadFromStorageStep"
    /\ last_read.sources = MaxConsumers
    /\ reads_in_progress = 1

\* C39: with the calls of pushConsumer and popConsumer of the tasks, the
\* sources, the readers and shutdown interleaved statement by statement, the
\* permits of the semaphore never exceed the size of the free list nor
\* num_consumers: the free list holds one consumer per permit, per call of
\* popConsumer that has its permit and per call of pushConsumer that has not
\* yet released one, so that popConsumer never pops from an empty list and
\* set() never finds the semaphore at its maximum.
C39_PermitsWithinFreeList ==
    /\ semaphore <= Len(consumers)
    /\ semaphore <= num_consumers
    /\ Len(consumers)
         = semaphore
           + pool_pc.popping["stream"] + pool_pc.popping["read"]
           + pool_pc.popping["drain"]
           + (IF pool_pc.mutex = "free" THEN 0 ELSE 1)
    /\ (\E c \in PoolCallers : pool_pc.popping[c] > 0) => consumers # << >>
    /\ pool_pc.mutex # "free" => semaphore < num_consumers

\* a reader and the drain loop of shutdown() both hold a permit and have not
\* yet taken their consumers
C39_Witness ==
    /\ pool_pc.popping["read"] = 1
    /\ pool_pc.popping["drain"] = 1
    /\ semaphore = 0
    /\ Len(consumers) = 2

\* the declared subjects in every order
orderings(subjs) ==
    {[i \in 1..Len(subjs) |-> subjs[f[i]]] :
        f \in {g \in [1..Len(subjs) -> 1..Len(subjs)] :
                 \A i, j \in 1..Len(subjs) : g[i] = g[j] => i = j}}

\* the members of the engine and its collaborators, without what a call
\* hands back
engineState ==
    << configVars, lifeVars, connVars, write_connections, poolVars, pool_pc,
       consumers_ready, mv_attached, shutdown_called, drop_table, taskVars,
       init_pc, stream_pc, streamLocals, shutdown_pc, envVars, readVars >>

\* C40: for every subject S (literal or not) and every declared list D,
\* isSubjectInSubscriptions returns the disjunction over the subjects d of D
\* of the match of S against d alone: false for the empty D, the same for
\* every order of D, still true when a subject is added to a D that accepts
\* S; and the call changes no state of the engine.
C40_MatchIsDisjunction ==
    /\ [](cand # NoCand =>
            /\ match_result
                 = (\E i \in 1..Len(subjects) :
                      isSubjectInSubscriptions(<< subjects[i] >>, cand))
            /\ subjects = << >> => ~match_result
            /\ \A ordered \in orderings(subjects) :
                 isSubjectInSubscriptions(ordered, cand) = match_result
            /\ match_result =>
                 \A d \in Strings(MaxLevels) :
                   /\ isSubjectInSubscriptions(Append(subjects, d), cand)
                   /\ isSubjectInSubscriptions(<< d >> \o subjects, cand))
    /\ [][cand' # NoCand => UNCHANGED engineState]_vars

\* the literal subject b is accepted by the declared subjects a and b, of
\* which the first alone rejects it and the second alone accepts it
C40_Witness ==
    /\ cand = << "b" >>
    /\ isLiteral(cand)
    /\ subjects = << << "a" >>, << "b" >> >>
    /\ ~isSubjectInSubscriptions(<< subjects[1] >>, cand)
    /\ isSubjectInSubscriptions(<< subjects[2] >>, cand)
    /\ match_result

====
